---- MODULE Spec2Model ----
(***************************************************************************)
(* Authentication and session lifecycle of the blog CMS.                   *)
(*                                                                         *)
(* Two implementations live in the repository and both are modelled:      *)
(*   - AuthService (tests/api/auth.test.ts): in-memory maps of users and   *)
(*     sessions, asynchronous methods that suspend at their awaits;        *)
(*   - the deployed path (src/lib/auth.ts, pages/admin/api/...): rows of   *)
(*     admin_sessions in the database, checked by isAuthenticated.         *)
(*                                                                         *)
(* Text is a sequence of one-character strings, so that the regular        *)
(* expressions, the string concatenations and the string comparisons of    *)
(* the code are computed character by character.  Time is counted in       *)
(* ticks, DayTicks of them a day.                                          *)
(***************************************************************************)
EXTENDS Integers, Sequences, FiniteSets, TLC

VARIABLES
    users,        \* AuthService.users: id -> User
    userKeys,     \* the keys of AuthService.users in the insertion order of the Map
    sessions,     \* AuthService.sessions: session id -> Session
    nextUserId,   \* AuthService.nextUserId
    tasks,        \* the pending asynchronous calls, each suspended at an await
    now,          \* the clock read by Date.now() / new Date() / datetime('now')
    ticks,        \* how many times the clock has advanced
    issued,       \* the session ids / tokens the random generator has produced
    last,         \* the step just taken: operation, arguments and outcome
    admin_sessions, \* table admin_sessions of the deployed path
    blog_posts,     \* table blog_posts
    post_seq,       \* the AUTOINCREMENT sequence of blog_posts
    bucket,         \* the keys stored in ASSETS_BUCKET
    passwordOf,     \* history: the password most recently set for each user
    call,           \* the call of a pure function just made: arguments and result
    blog_post_categories, \* table blog_post_categories: <<post_id, category_id>>
    blog_post_tags,       \* table blog_post_tags: <<post_id, tag_id>>
    blog_tags,            \* table blog_tags
    tag_seq,              \* the AUTOINCREMENT sequence of blog_tags
    requests,             \* the handlers of the deployed path suspended at an await
    posts,        \* BlogService.posts: id -> BlogPost
    nextId,       \* BlogService.nextId
    components,   \* ComponentManager.components: id -> ComponentState
    history,      \* ComponentManager.history
    nonceStore,   \* nonceStore: lower-cased address -> nonce and expiry
    nonceLog,     \* history: for each nonce generated, its address, its expiry
                  \* and whether validateNonce has accepted it
    DEV,          \* import.meta.env.DEV, fixed by the build
    rateLimitStore, \* rateLimitStore: identifier -> attempts and resetTime
    rateLog,      \* history: for each identifier, the end of its current
                  \* window and the calls allowed in it
    blog_categories, \* table blog_categories
    cat_seq,         \* the AUTOINCREMENT sequence of blog_categories
    cat_log          \* history: when the step just taken has completed a
                     \* category delete, the id, and whether a category naming
                     \* it as parent was written between the statements

vars == <<users, userKeys, sessions, nextUserId, tasks, now, ticks, issued, last,
          admin_sessions, blog_posts, post_seq, bucket, passwordOf, call,
          blog_post_categories, blog_post_tags, blog_tags, tag_seq, requests, posts, nextId,
          components, history, nonceStore, nonceLog, DEV,
          rateLimitStore, rateLog, blog_categories, cat_seq, cat_log>>

authVars == <<users, userKeys, sessions, nextUserId, tasks, passwordOf>>
assocVars == <<blog_post_categories, blog_post_tags>>
tagVars == <<blog_tags, tag_seq>>
httpVars == <<admin_sessions, blog_posts, post_seq, bucket, assocVars, tagVars, requests>>
blogVars == <<posts, nextId>>
\* the state of the modules that stand apart from authentication and requests
cmVars == <<components, history>>
nonceVars == <<nonceStore, nonceLog>>
rateVars == <<DEV, rateLimitStore, rateLog>>
catVars == <<blog_categories, cat_seq, cat_log>>
libVars == <<blogVars, cmVars, nonceVars, rateVars, catVars>>

(***************************************************************************)
(* Bounds                                                                  *)
(***************************************************************************)
DayTicks  == 2      \* clock ticks in a day
MaxTicks  == 2      \* times the clock advances
MaxUsers  == 2      \* user ids handed out
MaxTokens == 2      \* session ids generated
MaxTasks  == 2      \* concurrent asynchronous calls
MaxPosts  == 2      \* rows ever inserted into blog_posts
MaxImages == 2      \* objects in the bucket
MaxBytes  == 2      \* bytes of a derived hash
MaxBlogPosts == 3   \* ids BlogService hands out
MaxVersion == 52    \* version a component reaches
MaxNonces == 2      \* nonces generated
MaxCategories == 1  \* rows the handlers ever insert into blog_categories
MaxRequests == 2    \* handlers of the deployed path suspended together
MaxTags == 1        \* rows the handlers ever insert into blog_tags

Invalid == 0        \* a session id the generator never produces ('invalid')

(***************************************************************************)
(* Text                                                                    *)
(***************************************************************************)
UpperSeq == <<"A","B","C","D","E","F","G","H","I","J","K","L","M",
              "N","O","P","Q","R","S","T","U","V","W","X","Y","Z">>
LowerSeq == <<"a","b","c","d","e","f","g","h","i","j","k","l","m",
              "n","o","p","q","r","s","t","u","v","w","x","y","z">>
DigitSeq == <<"0","1","2","3","4","5","6","7","8","9">>

Range(s) == { s[i] : i \in DOMAIN s }
UpperChars == Range(UpperSeq)
LowerChars == Range(LowerSeq)
DigitChars == Range(DigitSeq)
SpaceChars == {" ", "\t", "\n"}

IndexOf(c, s) == CHOOSE i \in DOMAIN s : s[i] = c

\* String.prototype.toLowerCase, one character and a whole text
LowerChar(c) == IF c \in UpperChars THEN LowerSeq[IndexOf(c, UpperSeq)] ELSE c
toLowerCase(s) == [i \in DOMAIN s |-> LowerChar(s[i])]

\* character codes, as far as the comparisons of the model need their order
CharCode(c) ==
    IF c \in DigitChars THEN 47 + IndexOf(c, DigitSeq)
    ELSE IF c \in UpperChars THEN 64 + IndexOf(c, UpperSeq)
    ELSE IF c \in LowerChars THEN 96 + IndexOf(c, LowerSeq)
    ELSE IF c = " " THEN 32
    ELSE IF c = "." THEN 46
    ELSE IF c = "@" THEN 64
    ELSE IF c = "_" THEN 95
    ELSE 0

\* comparison of two TEXT values in SQLite (memcmp, then the longer is greater)
RECURSIVE TextGreater(_, _)
TextGreater(a, b) ==
    IF a = <<>> THEN FALSE
    ELSE IF b = <<>> THEN TRUE
    ELSE IF CharCode(Head(a)) # CharCode(Head(b))
         THEN CharCode(Head(a)) > CharCode(Head(b))
         ELSE TextGreater(Tail(a), Tail(b))

(***************************************************************************)
(* Time and its text forms.  A date-time text has a two-digit day, a        *)
(* separator and a two-digit tick of the day, standing for                 *)
(* YYYY-MM-DD, the separator and HH:MM:SS.                                 *)
(***************************************************************************)
Digits2(n) == <<DigitSeq[(n \div 10) + 1], DigitSeq[(n % 10) + 1]>>
DigitVal(c) == IndexOf(c, DigitSeq) - 1
Number2(s) == DigitVal(s[1]) * 10 + DigitVal(s[2])

\* Date.prototype.toISOString: "<date>T<time>Z"
toISOString(t) == Digits2(t \div DayTicks) \o <<"T">> \o Digits2(t % DayTicks) \o <<"Z">>
\* new Date(isoText).getTime()
DateParse(s) == Number2(SubSeq(s, 1, 2)) * DayTicks + Number2(SubSeq(s, 4, 5))
\* SQLite datetime('now'): "<date> <time>"
datetimeNow(t) == Digits2(t \div DayTicks) \o <<" ">> \o Digits2(t % DayTicks)

\* 7 * 24 * 60 * 60 * 1000 ms
sessionTTL == 7 * DayTicks

\* the decimal text of a number, as a template literal renders it
RECURSIVE Decimal(_)
Decimal(n) ==
    IF n < 10 THEN <<DigitSeq[n + 1]>>
    ELSE Decimal(n \div 10) \o <<DigitSeq[(n % 10) + 1]>>

CopySuffix == <<"-", "c", "o", "p", "y">>

RemoveAt(seq, i) == SubSeq(seq, 1, i - 1) \o SubSeq(seq, i + 1, Len(seq))

(***************************************************************************)
(* AuthService: pure methods                                               *)
(***************************************************************************)
\* /^[^\s@]+@[^\s@]+\.[^\s@]+$/.test(email)
validateEmail(email) ==
    \E i, j \in DOMAIN email :
        /\ 1 < i /\ i + 1 < j /\ j < Len(email)
        /\ email[i] = "@"
        /\ email[j] = "."
        /\ \A k \in DOMAIN email : k # i => email[k] \notin (SpaceChars \cup {"@"})

ErrLength == "Password must be at least 8 characters"
ErrUpper  == "Password must contain an uppercase letter"
ErrLower  == "Password must contain a lowercase letter"
ErrNumber == "Password must contain a number"

\* validatePasswordErrors, but it stops at the first violated rule
validatePasswordErrors_firstOnly(password) ==
    IF Len(password) < 8 THEN <<ErrLength>>
    ELSE IF Range(password) \cap UpperChars = {} THEN <<ErrUpper>>
    ELSE IF Range(password) \cap LowerChars = {} THEN <<ErrLower>>
    ELSE IF Range(password) \cap DigitChars = {} THEN <<ErrNumber>>
    ELSE <<>>

validatePasswordErrors(password) ==
    (IF Len(password) < 8 THEN <<ErrLength>> ELSE <<>>)
    \o (IF Range(password) \cap UpperChars = {} THEN <<ErrUpper>> ELSE <<>>)
    \o (IF Range(password) \cap LowerChars = {} THEN <<ErrLower>> ELSE <<>>)
    \o (IF Range(password) \cap DigitChars = {} THEN <<ErrNumber>> ELSE <<>>)

validatePassword(password) ==
    [valid |-> validatePasswordErrors(password) = <<>>,
     errors |-> validatePasswordErrors(password)]

\* `hashed_${password}`
AuthService_hashPassword(password) == <<"h","a","s","h","e","d","_">> \o password
\* AuthService_verifyPassword, but only the lengths are compared
AuthService_verifyPassword_lengthOnly(password, hash) == Len(AuthService_hashPassword(password)) = Len(hash)
\* `hashed_${password}` === hash
AuthService_verifyPassword(password, hash) == AuthService_hashPassword(password) = hash

\* the table of hasPermission
permissions ==
    [admin  |-> <<"create", "read", "update", "delete", "publish", "manage_users">>,
     editor |-> <<"create", "read", "update", "delete", "publish">>,
     author |-> <<"create", "read", "update">>]

\* the property names every object literal inherits from Object.prototype:
\* for these permissions[role] is a function, or (__proto__) an object,
\* without includes
ObjectPrototypeKeys ==
    {"__defineGetter__", "__defineSetter__", "__lookupGetter__", "__lookupSetter__",
     "__proto__", "constructor", "hasOwnProperty", "isPrototypeOf",
     "propertyIsEnumerable", "toLocaleString", "toString", "valueOf"}

\* permissions[user.role]?.includes(action) || false
hasPermission(role, action) ==
    IF role \in DOMAIN permissions
    THEN IF action \in Range(permissions[role]) THEN "true" ELSE "false"
    ELSE IF role \in ObjectPrototypeKeys
    THEN "TypeError"
    ELSE "false"

(***************************************************************************)
(* Inputs                                                                  *)
(***************************************************************************)
EmailLower == <<"a","@","b",".","c">>
EmailUpper == <<"A","@","b",".","c">>
EmailOther == <<"x","@","y",".","z">>
EmailBad   == <<"a","@","b">>
Emails == {EmailLower, EmailUpper, EmailOther, EmailBad}

PwStrong == <<"S","e","c","u","r","e","1","2">>
PwOther  == <<"N","e","w","P","a","s","s","9">>
PwWeak   == <<"s","h","o","r","t","1">>
Passwords == {PwStrong, PwOther, PwWeak}

NoRole == ""
RoleInputs == {NoRole, "editor"}

(***************************************************************************)
(* AuthService: state                                                      *)
(*                                                                         *)
(* A User keeps the fields that some method reads or some claim names      *)
(* (email, password_hash, role, last_login); name and created_at are       *)
(* written once and never read.  A Session keeps user_id and expires_at;   *)
(* its id is the key of the map.                                           *)
(*                                                                         *)
(* Every await of the class awaits the promise of an async method that     *)
(* has no await of its own, so a suspended call resumes one microtask      *)
(* later: the suspended calls resume in the order they suspended, and      *)
(* `tasks` is that queue.  Other calls may start in between.                *)
(***************************************************************************)
NoText == <<>>
NoUser == 0

\* a suspended call.  login and changePassword hold the User object they
\* found in the map; stored tells whether that object is still the one in
\* the map (clear() empties the map and users.set replaces the object under
\* a key; the call keeps its object)
Cont(pc, id, email, hash, role, valid, pw) ==
    [pc |-> pc, id |-> id, email |-> email, hash |-> hash, role |-> role,
     valid |-> valid, pw |-> pw, stored |-> TRUE]

\* the step just taken
Step(op, res, err, tok, uid, email, pw) ==
    [op |-> op, res |-> res, err |-> err, tok |-> tok, uid |-> uid,
     email |-> email, pw |-> pw]

ErrInvalidEmail == "Invalid email format"
ErrEmailExists  == "Email already exists"
ErrCredentials  == "Invalid credentials"
ErrUserNotFound == "User not found"
ErrOldPassword  == "Current password is incorrect"

UserIds == DOMAIN users
HasEmail(email) == \E u \in UserIds : users[u].email = email

\* this.users.set(id, user): a new key goes to the end of the Map, a key
\* the Map holds keeps its place
MapKeys(id) == IF id \in UserIds THEN userKeys ELSE Append(userKeys, id)

\* this.users.set(id, user) replaces the object under the key: the
\* suspended calls that hold a user with that id no longer hold the one in
\* the map
Detach(conts, id) ==
    [i \in DOMAIN conts |->
        IF conts[i].id = id THEN [conts[i] EXCEPT !.stored = FALSE] ELSE conts[i]]

\* for (const u of this.users.values()) if (u.email === email) ...: the first
\* user in the insertion order of the Map
FindByEmail(email) ==
    IF HasEmail(email)
    THEN userKeys[CHOOSE i \in DOMAIN userKeys :
                     /\ users[userKeys[i]].email = email
                     /\ \A j \in 1..(i - 1) : users[userKeys[j]].email # email]
    ELSE NoUser

\* CreateUser, but the record is stored before the password is validated
CreateUser_storesBeforeValidation(email, password, role) ==
    /\ UNCHANGED <<sessions, now, ticks, issued, httpVars, call, libVars>>
    /\ IF ~validateEmail(email)
       THEN /\ last' = Step("createUser", "throw", <<ErrInvalidEmail>>, Invalid, NoUser, email, password)
            /\ UNCHANGED <<users, userKeys, passwordOf, nextUserId, tasks>>
       ELSE IF ~validatePassword(password).valid
       THEN /\ last' = Step("createUser", "throw", validatePassword(password).errors, Invalid, NoUser, email, password)
            /\ nextUserId <= MaxUsers
            /\ users' = [u \in UserIds \cup {nextUserId} |->
                            IF u = nextUserId
                            THEN [email |-> email, password_hash |-> NoText,
                                  role |-> "author", last_login |-> NoText]
                            ELSE users[u]]
            /\ passwordOf' = [u \in UserIds \cup {nextUserId} |->
                                 IF u = nextUserId THEN password ELSE passwordOf[u]]
            /\ userKeys' = MapKeys(nextUserId)
            /\ UNCHANGED <<nextUserId, tasks>>
       ELSE IF HasEmail(email)
       THEN /\ last' = Step("createUser", "throw", <<ErrEmailExists>>, Invalid, NoUser, email, password)
            /\ UNCHANGED <<users, userKeys, passwordOf, nextUserId, tasks>>
       ELSE /\ nextUserId <= MaxUsers
            /\ Len(tasks) < MaxTasks
            /\ nextUserId' = nextUserId + 1
            /\ tasks' = Append(tasks, Cont("createUser", nextUserId, email, AuthService_hashPassword(password),
                                           IF role = NoRole THEN "author" ELSE role, FALSE, password))
            /\ last' = Step("createUser", "await", <<>>, Invalid, nextUserId, email, password)
            /\ UNCHANGED <<users, userKeys, passwordOf>>

\* createUser up to its await: validation, duplicate check, nextUserId++,
\* hashPassword
CreateUser(email, password, role) ==
    /\ UNCHANGED <<users, userKeys, passwordOf, sessions, now, ticks, issued, httpVars, call, libVars>>
    /\ IF ~validateEmail(email)
       THEN /\ last' = Step("createUser", "throw", <<ErrInvalidEmail>>, Invalid, NoUser, email, password)
            /\ UNCHANGED <<nextUserId, tasks>>
       ELSE IF ~validatePassword(password).valid
       THEN /\ last' = Step("createUser", "throw", validatePassword(password).errors, Invalid, NoUser, email, password)
            /\ UNCHANGED <<nextUserId, tasks>>
       ELSE IF HasEmail(email)
       THEN /\ last' = Step("createUser", "throw", <<ErrEmailExists>>, Invalid, NoUser, email, password)
            /\ UNCHANGED <<nextUserId, tasks>>
       ELSE /\ nextUserId <= MaxUsers
            /\ Len(tasks) < MaxTasks
            /\ nextUserId' = nextUserId + 1
            /\ tasks' = Append(tasks, Cont("createUser", nextUserId, email, AuthService_hashPassword(password),
                                           IF role = NoRole THEN "author" ELSE role, FALSE, password))
            /\ last' = Step("createUser", "await", <<>>, Invalid, nextUserId, email, password)

\* CreateUserResume, but the id is read from the counter when the user is stored
CreateUserResume_idFromCounter ==
    /\ tasks # <<>>
    /\ Head(tasks).pc = "createUser"
    /\ LET c == Head(tasks)
           id == nextUserId - 1
       IN
        /\ users' = [u \in UserIds \cup {id} |->
                        IF u = id
                        THEN [email |-> c.email, password_hash |-> c.hash,
                              role |-> c.role, last_login |-> NoText]
                        ELSE users[u]]
        /\ passwordOf' = [u \in UserIds \cup {id} |->
                             IF u = id THEN c.pw ELSE passwordOf[u]]
        /\ userKeys' = MapKeys(id)
        /\ tasks' = Detach(Tail(tasks), id)
        /\ last' = Step("createUser", "return", <<>>, Invalid, id, c.email, NoText)
    /\ UNCHANGED <<sessions, nextUserId, now, ticks, issued, httpVars, call, libVars>>

\* createUser after its await: this.users.set(user.id, user), which puts a
\* new key at the end of the Map and replaces the object under a key the
\* Map holds
CreateUserResume ==
    /\ tasks # <<>>
    /\ Head(tasks).pc = "createUser"
    /\ LET c == Head(tasks) IN
        /\ users' = [u \in UserIds \cup {c.id} |->
                        IF u = c.id
                        THEN [email |-> c.email, password_hash |-> c.hash,
                              role |-> c.role, last_login |-> NoText]
                        ELSE users[u]]
        /\ passwordOf' = [u \in UserIds \cup {c.id} |->
                             IF u = c.id THEN c.pw ELSE passwordOf[u]]
        /\ userKeys' = MapKeys(c.id)
        /\ tasks' = Detach(Tail(tasks), c.id)
        /\ last' = Step("createUser", "return", <<>>, Invalid, c.id, c.email, NoText)
    /\ UNCHANGED <<sessions, nextUserId, now, ticks, issued, httpVars, call, libVars>>

\* generateSessionId / generateToken: 32 random bytes, a value that was never
\* produced before; the ids are named in the order they are generated
NewIds == IF Cardinality(issued) < MaxTokens THEN {Cardinality(issued) + 1} ELSE {}

\* the suspended logins that will each draw a session id
PendingLogins == Cardinality({i \in DOMAIN tasks : tasks[i].pc = "login" /\ tasks[i].valid})

\* Login, but an unknown email is reported as such
Login_namesUnknownEmail(email, password) ==
    /\ UNCHANGED <<users, userKeys, passwordOf, sessions, nextUserId, now, ticks, issued, httpVars, call, libVars>>
    /\ IF FindByEmail(email) = NoUser
       THEN /\ last' = Step("login", "throw", <<ErrUserNotFound>>, Invalid, NoUser, email, password)
            /\ UNCHANGED tasks
       ELSE /\ Len(tasks) < MaxTasks
            /\ Cardinality(issued) + PendingLogins < MaxTokens
            /\ tasks' = Append(tasks, Cont("login", FindByEmail(email), NoText, NoText, "",
                                  AuthService_verifyPassword(password, users[FindByEmail(email)].password_hash),
                                  password))
            /\ last' = Step("login", "await", <<>>, Invalid, FindByEmail(email), email, password)

\* login up to its await: lookup by email, verifyPassword
Login(email, password) ==
    /\ UNCHANGED <<users, userKeys, passwordOf, sessions, nextUserId, now, ticks, issued, httpVars, call, libVars>>
    /\ IF FindByEmail(email) = NoUser
       THEN /\ last' = Step("login", "throw", <<ErrCredentials>>, Invalid, NoUser, email, password)
            /\ UNCHANGED tasks
       ELSE /\ Len(tasks) < MaxTasks
            /\ Cardinality(issued) + PendingLogins < MaxTokens
            /\ tasks' = Append(tasks, Cont("login", FindByEmail(email), NoText, NoText, "",
                                  AuthService_verifyPassword(password, users[FindByEmail(email)].password_hash),
                                  password))
            /\ last' = Step("login", "await", <<>>, Invalid, FindByEmail(email), email, password)

\* LoginResume, but last_login is not updated
LoginResume_keepsLastLogin ==
    /\ tasks # <<>>
    /\ Head(tasks).pc = "login"
    /\ tasks' = Tail(tasks)
    /\ UNCHANGED <<userKeys, nextUserId, now, ticks, passwordOf, httpVars, call, libVars>>
    /\ LET c == Head(tasks) IN
        IF ~c.valid
        THEN /\ last' = Step("login", "throw", <<ErrCredentials>>, Invalid, NoUser, NoText, NoText)
             /\ UNCHANGED <<users, sessions, issued>>
        ELSE \E id \in NewIds :
             /\ issued' = issued \cup {id}
             /\ users' = users
             /\ sessions' = [t \in DOMAIN sessions \cup {id} |->
                                IF t = id
                                THEN [user_id |-> c.id,
                                      expires_at |-> toISOString(now + sessionTTL)]
                                ELSE sessions[t]]
             /\ last' = Step("login", "return", <<>>, id, c.id, NoText, NoText)

\* login after its await: reject, or set last_login and create the session
LoginResume ==
    /\ tasks # <<>>
    /\ Head(tasks).pc = "login"
    /\ tasks' = Tail(tasks)
    /\ UNCHANGED <<userKeys, nextUserId, now, ticks, passwordOf, httpVars, call, libVars>>
    /\ LET c == Head(tasks) IN
        IF ~c.valid
        THEN /\ last' = Step("login", "throw", <<ErrCredentials>>, Invalid, NoUser, NoText, NoText)
             /\ UNCHANGED <<users, sessions, issued>>
        ELSE \E id \in NewIds :
             /\ issued' = issued \cup {id}
             /\ users' = IF c.stored
                          THEN [users EXCEPT ![c.id].last_login = toISOString(now)]
                          ELSE users
             /\ sessions' = [t \in DOMAIN sessions \cup {id} |->
                                IF t = id
                                THEN [user_id |-> c.id,
                                      expires_at |-> toISOString(now + sessionTTL)]
                                ELSE sessions[t]]
             /\ last' = Step("login", "return", <<>>, id, c.id, NoText, NoText)

\* Logout, but the session stays in the map
Logout_keepsSession(sessionId) ==
    /\ sessions' = sessions
    /\ last' = Step("logout", IF sessionId \in DOMAIN sessions THEN "true" ELSE "false",
                    <<>>, sessionId, NoUser, NoText, NoText)
    /\ UNCHANGED <<users, userKeys, passwordOf, nextUserId, tasks, now, ticks, issued, httpVars, call, libVars>>

\* logout: this.sessions.delete(sessionId)
Logout(sessionId) ==
    /\ sessions' = [t \in DOMAIN sessions \ {sessionId} |-> sessions[t]]
    /\ last' = Step("logout", IF sessionId \in DOMAIN sessions THEN "true" ELSE "false",
                    <<>>, sessionId, NoUser, NoText, NoText)
    /\ UNCHANGED <<users, userKeys, passwordOf, nextUserId, tasks, now, ticks, issued, httpVars, call, libVars>>

\* new Date(session.expires_at) < new Date()
SessionExpired(session, t) == DateParse(session.expires_at) < t

\* ValidateSession, but an expired session is left in the map
ValidateSession_keepsExpired(sessionId) ==
    /\ UNCHANGED <<users, userKeys, passwordOf, nextUserId, tasks, now, ticks, issued, httpVars, call, libVars>>
    /\ IF sessionId \notin DOMAIN sessions
       THEN /\ last' = Step("validateSession", "return", <<>>, sessionId, NoUser, NoText, NoText)
            /\ UNCHANGED sessions
       ELSE IF SessionExpired(sessions[sessionId], now)
       THEN /\ sessions' = sessions
            /\ last' = Step("validateSession", "return", <<>>, sessionId, NoUser, NoText, NoText)
       ELSE /\ last' = Step("validateSession", "return", <<>>, sessionId,
                            IF sessions[sessionId].user_id \in UserIds
                            THEN sessions[sessionId].user_id ELSE NoUser,
                            NoText, NoText)
            /\ UNCHANGED sessions

\* validateSession: absent -> null; expired -> delete and null; else the user
ValidateSession(sessionId) ==
    /\ UNCHANGED <<users, userKeys, passwordOf, nextUserId, tasks, now, ticks, issued, httpVars, call, libVars>>
    /\ IF sessionId \notin DOMAIN sessions
       THEN /\ last' = Step("validateSession", "return", <<>>, sessionId, NoUser, NoText, NoText)
            /\ UNCHANGED sessions
       ELSE IF SessionExpired(sessions[sessionId], now)
       THEN /\ sessions' = [t \in DOMAIN sessions \ {sessionId} |-> sessions[t]]
            /\ last' = Step("validateSession", "return", <<>>, sessionId, NoUser, NoText, NoText)
       ELSE /\ last' = Step("validateSession", "return", <<>>, sessionId,
                            IF sessions[sessionId].user_id \in UserIds
                            THEN sessions[sessionId].user_id ELSE NoUser,
                            NoText, NoText)
            /\ UNCHANGED sessions

\* refreshSession: absent -> null; else expires_at = now + sessionTTL
RefreshSession(sessionId) ==
    /\ UNCHANGED <<users, userKeys, passwordOf, nextUserId, tasks, now, ticks, issued, httpVars, call, libVars>>
    /\ IF sessionId \notin DOMAIN sessions
       THEN /\ last' = Step("refreshSession", "null", <<>>, sessionId, NoUser, NoText, NoText)
            /\ UNCHANGED sessions
       ELSE /\ sessions' = [sessions EXCEPT ![sessionId].expires_at = toISOString(now + sessionTTL)]
            /\ last' = Step("refreshSession", "session", <<>>, sessionId,
                            sessions[sessionId].user_id, NoText, NoText)

\* changePassword up to its first await: lookup by id, verifyPassword
ChangePassword(userId, oldPassword, newPassword) ==
    /\ UNCHANGED <<users, userKeys, passwordOf, sessions, nextUserId, now, ticks, issued, httpVars, call, libVars>>
    /\ IF userId \notin UserIds
       THEN /\ last' = Step("changePassword", "throw", <<ErrUserNotFound>>, Invalid, userId, NoText, oldPassword)
            /\ UNCHANGED tasks
       ELSE /\ Len(tasks) < MaxTasks
            /\ tasks' = Append(tasks, Cont("changePassword", userId, NoText, NoText, "",
                                  AuthService_verifyPassword(oldPassword, users[userId].password_hash),
                                  newPassword))
            /\ last' = Step("changePassword", "await", <<>>, Invalid, userId, NoText, oldPassword)

\* ChangePasswordResume, but the new password is validated first
ChangePasswordResume_validatesFirst ==
    /\ tasks # <<>>
    /\ Head(tasks).pc = "changePassword"
    /\ UNCHANGED <<users, userKeys, passwordOf, sessions, nextUserId, now, ticks, issued, httpVars, call, libVars>>
    /\ LET c == Head(tasks) IN
        IF ~validatePassword(c.pw).valid
        THEN /\ last' = Step("changePassword", "throw", validatePassword(c.pw).errors, Invalid, c.id, NoText, NoText)
             /\ tasks' = Tail(tasks)
        ELSE IF ~c.valid
        THEN /\ last' = Step("changePassword", "throw", <<ErrOldPassword>>, Invalid, c.id, NoText, NoText)
             /\ tasks' = Tail(tasks)
        ELSE /\ tasks' = Append(Tail(tasks),
                                [Cont("changePasswordSet", c.id, NoText, AuthService_hashPassword(c.pw), "", TRUE, c.pw)
                                    EXCEPT !.stored = c.stored])
             /\ last' = Step("changePassword", "await", <<>>, Invalid, c.id, NoText, NoText)

\* changePassword between its awaits: reject, or validate and hash the new one
ChangePasswordResume ==
    /\ tasks # <<>>
    /\ Head(tasks).pc = "changePassword"
    /\ UNCHANGED <<users, userKeys, passwordOf, sessions, nextUserId, now, ticks, issued, httpVars, call, libVars>>
    /\ LET c == Head(tasks) IN
        IF ~c.valid
        THEN /\ last' = Step("changePassword", "throw", <<ErrOldPassword>>, Invalid, c.id, NoText, NoText)
             /\ tasks' = Tail(tasks)
        ELSE IF ~validatePassword(c.pw).valid
        THEN /\ last' = Step("changePassword", "throw", validatePassword(c.pw).errors, Invalid, c.id, NoText, NoText)
             /\ tasks' = Tail(tasks)
        ELSE /\ tasks' = Append(Tail(tasks),
                                [Cont("changePasswordSet", c.id, NoText, AuthService_hashPassword(c.pw), "", TRUE, c.pw)
                                    EXCEPT !.stored = c.stored])
             /\ last' = Step("changePassword", "await", <<>>, Invalid, c.id, NoText, NoText)

\* ChangePasswordSet, but the sessions of the user are dropped
ChangePasswordSet_dropsSessions ==
    /\ tasks # <<>>
    /\ Head(tasks).pc = "changePasswordSet"
    /\ users' = IF Head(tasks).stored
                 THEN [users EXCEPT ![Head(tasks).id].password_hash = Head(tasks).hash]
                 ELSE users
    /\ passwordOf' = IF Head(tasks).stored
                      THEN [passwordOf EXCEPT ![Head(tasks).id] = Head(tasks).pw]
                      ELSE passwordOf
    /\ last' = Step("changePassword", "return", <<>>, Invalid, Head(tasks).id, NoText, NoText)
    /\ tasks' = Tail(tasks)
    /\ sessions' = [t \in {x \in DOMAIN sessions : sessions[x].user_id # Head(tasks).id} |-> sessions[t]]
    /\ UNCHANGED <<userKeys, nextUserId, now, ticks, issued, httpVars, call, libVars>>

\* changePassword after its second await: user.password_hash = <hash>
ChangePasswordSet ==
    /\ tasks # <<>>
    /\ Head(tasks).pc = "changePasswordSet"
    /\ users' = IF Head(tasks).stored
                 THEN [users EXCEPT ![Head(tasks).id].password_hash = Head(tasks).hash]
                 ELSE users
    /\ passwordOf' = IF Head(tasks).stored
                      THEN [passwordOf EXCEPT ![Head(tasks).id] = Head(tasks).pw]
                      ELSE passwordOf
    /\ last' = Step("changePassword", "return", <<>>, Invalid, Head(tasks).id, NoText, NoText)
    /\ tasks' = Tail(tasks)
    /\ UNCHANGED <<userKeys, sessions, nextUserId, now, ticks, issued, httpVars, call, libVars>>

\* clear(): both maps are emptied and the counter starts again; the calls
\* that are suspended keep the User objects they hold, which are no longer
\* in the map
Clear ==
    /\ users' = <<>>
    /\ userKeys' = <<>>
    /\ sessions' = <<>>
    /\ nextUserId' = 1
    /\ passwordOf' = <<>>
    /\ tasks' = [i \in DOMAIN tasks |-> [tasks[i] EXCEPT !.stored = FALSE]]
    /\ last' = Step("clear", "", <<>>, Invalid, NoUser, NoText, NoText)
    /\ UNCHANGED <<now, ticks, issued, httpVars, call, libVars>>

\* time passes: a moment, or the lifetime of a session
Tick(d) ==
    /\ ticks < MaxTicks
    /\ ticks' = ticks + 1
    /\ now' = now + d
    /\ last' = Step("tick", "", <<>>, Invalid, NoUser, NoText, NoText)
    /\ UNCHANGED <<authVars, issued, httpVars, call, libVars>>

(***************************************************************************)
(* The tables as migrations/0001_blog_schema.sql leaves them: the default  *)
(* categories and tags, with the ids AUTOINCREMENT gives them.             *)
(***************************************************************************)
\* parent_id NULL, a form without the field, a body without the id
NoCategory == -1

\* no category delete has just been completed
NoLog == [id |-> NoCategory, raced |-> FALSE]

\* "Insert default categories"
CategorySeed ==
    <<[name |-> <<"N", "e", "w", "s">>,
       slug |-> <<"n", "e", "w", "s">>],
      [name |-> <<"T", "u", "t", "o", "r", "i", "a", "l", "s">>,
       slug |-> <<"t", "u", "t", "o", "r", "i", "a", "l", "s">>],
      [name |-> <<"D", "e", "F", "i">>,
       slug |-> <<"d", "e", "f", "i">>],
      [name |-> <<"T", "e", "c", "h", "n", "o", "l", "o", "g", "y">>,
       slug |-> <<"t", "e", "c", "h", "n", "o", "l", "o", "g", "y">>],
      [name |-> <<"M", "a", "r", "k", "e", "t", " ", "A", "n", "a", "l", "y", "s", "i", "s">>,
       slug |-> <<"m", "a", "r", "k", "e", "t", "-", "a", "n", "a", "l", "y", "s", "i", "s">>]>>

\* "Insert default tags"
TagSeed ==
    <<[name |-> <<"C", "r", "y", "p", "t", "o", "c", "u", "r", "r", "e", "n", "c", "y">>,
       slug |-> <<"c", "r", "y", "p", "t", "o", "c", "u", "r", "r", "e", "n", "c", "y">>],
      [name |-> <<"B", "l", "o", "c", "k", "c", "h", "a", "i", "n">>,
       slug |-> <<"b", "l", "o", "c", "k", "c", "h", "a", "i", "n">>],
      [name |-> <<"E", "t", "h", "e", "r", "e", "u", "m">>,
       slug |-> <<"e", "t", "h", "e", "r", "e", "u", "m">>],
      [name |-> <<"S", "m", "a", "r", "t", " ", "C", "o", "n", "t", "r", "a", "c", "t", "s">>,
       slug |-> <<"s", "m", "a", "r", "t", "-", "c", "o", "n", "t", "r", "a", "c", "t", "s">>],
      [name |-> <<"W", "e", "b", "3">>,
       slug |-> <<"w", "e", "b", "3">>],
      [name |-> <<"A", "t", "h", "e", "n", "a", " ", "A", "I">>,
       slug |-> <<"a", "t", "h", "e", "n", "a", "-", "a", "i">>],
      [name |-> <<"T", "r", "a", "d", "i", "n", "g">>,
       slug |-> <<"t", "r", "a", "d", "i", "n", "g">>]>>

\* .replace(/[^\w\s-]/g, ''), on lower-case text
WordChars == LowerChars \cup DigitChars \cup {"_"}
RECURSIVE KeepWordSpaceDash(_)
KeepWordSpaceDash(s) ==
    IF s = <<>> THEN <<>>
    ELSE IF Head(s) \in WordChars \cup SpaceChars \cup {"-"}
    THEN <<Head(s)>> \o KeepWordSpaceDash(Tail(s))
    ELSE KeepWordSpaceDash(Tail(s))

\* .replace(/\s+/g, '-'), and .replace(/-+/g, '-')
RECURSIVE DropSpaces(_)
DropSpaces(s) == IF s = <<>> \/ Head(s) \notin SpaceChars THEN s ELSE DropSpaces(Tail(s))
RECURSIVE SpacesToDash(_)
SpacesToDash(s) ==
    IF s = <<>> THEN <<>>
    ELSE IF Head(s) \in SpaceChars THEN <<"-">> \o SpacesToDash(DropSpaces(Tail(s)))
    ELSE <<Head(s)>> \o SpacesToDash(Tail(s))
\* String.prototype.trim
RECURSIVE DropSpacesAtEnd(_)
DropSpacesAtEnd(s) ==
    IF s = <<>> \/ s[Len(s)] \notin SpaceChars THEN s
    ELSE DropSpacesAtEnd(SubSeq(s, 1, Len(s) - 1))
trim(s) == DropSpacesAtEnd(DropSpaces(s))
RECURSIVE DropDashes(_)
DropDashes(s) == IF s = <<>> \/ Head(s) # "-" THEN s ELSE DropDashes(Tail(s))
RECURSIVE CollapseDashes(_)
CollapseDashes(s) ==
    IF s = <<>> THEN <<>>
    ELSE IF Head(s) = "-" THEN <<"-">> \o CollapseDashes(DropDashes(Tail(s)))
    ELSE <<Head(s)>> \o CollapseDashes(Tail(s))

\* the slug the handlers make of a name when the form gives none:
\* name.toLowerCase().replace(...).replace(...).replace(...).trim()
categorySlug(name) == trim(CollapseDashes(SpacesToDash(KeepWordSpaceDash(toLowerCase(name)))))

\* the rows of blog_tags after the migration
TagRows == {[id |-> i, name |-> TagSeed[i].name, slug |-> TagSeed[i].slug] : i \in DOMAIN TagSeed}

CategoryIds == {c.id : c \in blog_categories}
TagIds == {t.id : t \in blog_tags}

\* no pure function has been called
NoCall == [op |-> "none"]

NoStep == Step("new", "", <<>>, Invalid, NoUser, NoText, NoText)

InitClock ==
    /\ call = NoCall
    /\ now = 0
    /\ ticks = 0
    /\ issued = {}
    /\ last = NoStep

\* new AuthService()
InitAuth ==
    /\ users = <<>>
    /\ userKeys = <<>>
    /\ sessions = <<>>
    /\ nextUserId = 1
    /\ tasks = <<>>
    /\ passwordOf = <<>>

InitHttp ==
    /\ admin_sessions = {}
    /\ blog_posts = {}
    /\ post_seq = 0
    /\ bucket = {}
    /\ blog_post_categories = {}
    /\ blog_post_tags = {}
    /\ blog_tags = TagRows
    /\ tag_seq = Len(TagSeed)
    /\ requests = <<>>

\* new BlogService()
InitBlogService ==
    /\ posts = <<>>
    /\ nextId = 1

\* new ComponentManager()
InitComponentManager ==
    /\ components = <<>>
    /\ history = <<>>

InitNonces ==
    /\ nonceStore = <<>>
    /\ nonceLog = <<>>

InitRateStores ==
    /\ rateLimitStore = <<>>
    /\ rateLog = <<>>

\* a production build
InitRateLimit == DEV = FALSE /\ InitRateStores

\* the table as the migration creates and fills it
InitCategories ==
    /\ blog_categories = {[id |-> i, name |-> CategorySeed[i].name,
                            slug |-> CategorySeed[i].slug, parent_id |-> NoCategory] :
                              i \in DOMAIN CategorySeed}
    /\ cat_seq = Len(CategorySeed)
    /\ cat_log = NoLog

InitModules == InitBlogService /\ InitComponentManager /\ InitNonces
InitLib == InitModules /\ InitRateLimit /\ InitCategories

Init == InitClock /\ InitAuth /\ InitHttp /\ InitLib

\* the session ids a caller can present: those generated so far, and 'invalid'
Presentable == issued \cup {Invalid}

Clock == \E d \in {1, sessionTTL} : Tick(d)

Register ==
    \/ \E e \in Emails, p \in {PwStrong, PwWeak}, r \in RoleInputs : CreateUser(e, p, r)
    \/ CreateUserResume

SignIn ==
    \/ \E e \in Emails \ {EmailBad}, p \in {PwStrong, PwOther} : Login(e, p)
    \/ LoginResume

SessionCalls ==
    \/ \E t \in Presentable : Logout(t)
    \/ \E t \in Presentable : ValidateSession(t)
    \/ \E t \in Presentable : RefreshSession(t)

Password ==
    \/ \E u \in 1..MaxUsers, o \in {PwStrong, PwOther}, n \in {PwOther, PwWeak} : ChangePassword(u, o, n)
    \/ ChangePasswordResume
    \/ ChangePasswordSet

Next == Register \/ SignIn \/ SessionCalls \/ Password \/ Clear \/ Clock

Spec == Init /\ [][Next]_vars

(***************************************************************************)
(* Registration alone: concurrent createUser calls on a new service, and   *)
(* clear() when no call is suspended.                                      *)
(***************************************************************************)
NextRegister == Register \/ (tasks = <<>> /\ Clear)

SpecRegister == Init /\ [][NextRegister]_vars

(***************************************************************************)
(* The session lifecycle, for a service on which two users have            *)
(* registered: createUser(EmailLower, PwStrong), createUser(EmailOther,     *)
(* PwOther).                                                               *)
(***************************************************************************)
NewUser(email, password, role) ==
    [email |-> email, password_hash |-> AuthService_hashPassword(password),
     role |-> role, last_login |-> NoText]

InitRegistered ==
    /\ users = <<NewUser(EmailLower, PwStrong, "author"), NewUser(EmailOther, PwOther, "author")>>
    /\ userKeys = <<1, 2>>
    /\ sessions = <<>>
    /\ nextUserId = 3
    /\ tasks = <<>>
    /\ passwordOf = <<PwStrong, PwOther>>

InitSession == InitClock /\ InitRegistered /\ InitHttp /\ InitLib

NextSession == SignIn \/ SessionCalls \/ Clock

SpecSession == InitSession /\ [][NextSession]_vars

(***************************************************************************)
(* The lifecycle of the sessions of the first registered user: logins with *)
(* the right and a wrong password, and every session call, as time passes. *)
(***************************************************************************)
NextLifecycle ==
    \/ \E p \in {PwStrong, PwOther} : Login(EmailLower, p)
    \/ LoginResume
    \/ SessionCalls
    \/ Clock

SpecLifecycle == InitSession /\ [][NextLifecycle]_vars

(***************************************************************************)
(* Password changes of the first registered user, among that user's        *)
(* logins and the validation of the sessions.  changePassword is called    *)
(* with the id of the user or with an id nobody has.                       *)
(***************************************************************************)
ChangeCalls ==
    \/ \E u \in {1, nextUserId}, o \in {PwStrong, PwOther}, n \in {PwOther, PwWeak} :
          ChangePassword(u, o, n)
    \/ ChangePasswordResume
    \/ ChangePasswordSet

NextPassword ==
    \/ ChangeCalls
    \/ \E p \in {PwStrong, PwOther} : Login(EmailLower, p)
    \/ LoginResume
    \/ \E t \in Presentable : ValidateSession(t)

SpecPassword == InitSession /\ [][NextPassword]_vars

(***************************************************************************)
(* The deployed path: lib/auth.ts and the handlers of pages/admin/api.     *)
(* A handler is suspended at each await of a database or bucket call, and  *)
(* the handlers of other requests run meanwhile: `requests` holds the      *)
(* handlers that are suspended, and any of them may take its next step.    *)
(* A step is one statement, or one reading of the clock, with the code of  *)
(* the handler around it that touches nothing shared.  `last` records the  *)
(* step: the handler, the admin_session cookie of its request (or the      *)
(* token a login issued), and either "await" or the status and the error   *)
(* message of the response.                                                *)
(***************************************************************************)
NoCookie == Invalid

\* crypto.subtle.deriveBits(PBKDF2, salt, 100000, SHA-256): one value for each
\* password and salt
PBKDF2(password, salt) == <<"pbkdf2">> \o salt \o <<":">> \o password

\* lib/auth.ts hashPassword, for a given random salt: salt || derived bits
hashPassword(password, salt) == [salt |-> salt, hash |-> PBKDF2(password, salt)]

\* the loop of verifyPassword from index i on: return false at the first
\* differing element; comparisons counts the evaluations of
\* storedHash[i] !== testHashArray[i]
RECURSIVE CompareFrom(_, _, _)
CompareFrom(storedHash, testHashArray, i) ==
    IF i > Len(storedHash)
    THEN [equal |-> TRUE, comparisons |-> i - 1]
    ELSE IF storedHash[i] # testHashArray[i]
    THEN [equal |-> FALSE, comparisons |-> i]
    ELSE CompareFrom(storedHash, testHashArray, i + 1)

\* "Compare arrays": the length test, then the loop
CompareArrays(storedHash, testHashArray) ==
    IF Len(storedHash) # Len(testHashArray)
    THEN [equal |-> FALSE, comparisons |-> 0]
    ELSE CompareFrom(storedHash, testHashArray, 1)

\* lib/auth.ts verifyPassword: derive with the stored salt, compare the bytes
verifyPassword(password, stored) ==
    CompareArrays(stored.hash, PBKDF2(password, stored.salt)).equal

\* table admin_users: the administrator the installation was set up with
admin_users ==
    {[id |-> 1, email |-> EmailLower, password_hash |-> hashPassword(PwStrong, <<"s","1">>)]}

\* SELECT u.* FROM admin_users u JOIN admin_sessions s ON u.id = s.user_id
\* WHERE s.token = ? AND s.expires_at > datetime('now')
SessionUsers(cookie, t) ==
    { u \in admin_users :
        \E row \in admin_sessions :
            /\ row.user_id = u.id
            /\ row.token = cookie
            /\ TextGreater(row.expires_at, datetimeNow(t)) }

\* lib/auth.ts isAuthenticated: without the cookie false, else the query
isAuthenticated(cookie) ==
    IF cookie = NoCookie THEN FALSE ELSE SessionUsers(cookie, now) # {}

Respond(op, status, err, tok, uid) == Step(op, status, err, tok, uid, NoText, NoText)

\* a request without the post_id field, a response without a post
NoPostId == 0
\* a request without the id of a tag
NoTag == 0

\* formData.get('image') of a form without the field
NoFile == [name |-> NoText, type |-> "", size |-> 0]
\* the filename '' and a body without filename
NoFilename == [dir |-> "", stamp |-> 0, random |-> 0, ext |-> NoText]

\* a handler suspended at an await: its route, the statement it runs next,
\* the cookie and the fields of its request, and what it has computed.
\* wrote tells whether a statement of the request has changed a row, raced
\* whether a category naming the one a delete request removes was written
\* after the first statement of that request.
Request(op, pc, cookie, id) ==
    [op |-> op, pc |-> pc, cookie |-> cookie, id |-> id,
     name |-> NoText, slug |-> NoText, categories |-> <<>>, tags |-> <<>>,
     file |-> NoFile, key |-> NoFilename, newPostId |-> NoPostId, wrote |-> FALSE,
     email |-> NoText, password |-> NoText, token |-> NoCookie, expiresAt |-> NoText,
     parent_id |-> NoCategory, raced |-> FALSE]

\* request i is suspended in handler op before statement pc
At(i, op, pc) ==
    /\ i \in DOMAIN requests
    /\ requests[i].op = op
    /\ requests[i].pc = pc

\* the handler answers before it has awaited a statement
Reply(op, cookie, status, err) ==
    /\ last' = Respond(op, status, err, cookie, NoUser)
    /\ UNCHANGED requests

\* the handler awaits its first statement
Suspend(req) ==
    /\ Len(requests) < MaxRequests
    /\ requests' = Append(requests, req)
    /\ last' = Respond(req.op, "await", <<>>, req.cookie, NoUser)

\* the handler of request i awaits its next statement, as req
Await(i, req) ==
    /\ requests' = [requests EXCEPT ![i] = req]
    /\ last' = Respond(req.op, "await", <<>>, req.cookie, NoUser)

\* the handler of request i answers
Finish(i, status, err) ==
    /\ requests' = RemoveAt(requests, i)
    /\ last' = Respond(requests[i].op, status, err, requests[i].cookie, NoUser)

\* what no step of a blog, tag or image handler changes
requestFrame == <<authVars, call, libVars, now, ticks, issued, admin_sessions>>

\* POST auth/login.json: request.formData() is awaited
post_login(email, password) ==
    /\ UNCHANGED <<requestFrame, bucket, blog_posts, post_seq, assocVars, tagVars>>
    /\ Suspend([Request("login.json", "form", NoCookie, NoUser)
                   EXCEPT !.email = email, !.password = password])

\* login.json: the fields of the form are checked and SELECT * FROM
\* admin_users WHERE email = ? is awaited
post_login_form(i) ==
    /\ At(i, "login.json", "form")
    /\ UNCHANGED <<requestFrame, bucket, blog_posts, post_seq, assocVars, tagVars>>
    /\ LET r == requests[i] IN
       IF r.email = NoText \/ r.password = NoText
       THEN Finish(i, "400", <<"Email and password are required">>)
       ELSE Await(i, [r EXCEPT !.pc = "select"])

\* login.json: the SELECT has run; without a user 401, else
\* verifyPassword(password, user.password_hash) is awaited
post_login_select(i) ==
    /\ At(i, "login.json", "select")
    /\ UNCHANGED <<requestFrame, bucket, blog_posts, post_seq, assocVars, tagVars>>
    /\ LET r == requests[i]
           found == { u \in admin_users : u.email = r.email }
       IN  IF found = {}
           THEN Finish(i, "401", <<ErrCredentials>>)
           ELSE Await(i, [r EXCEPT !.pc = "verify", !.id = (CHOOSE u \in found : TRUE).id])

\* login.json: verifyPassword has answered; when the password is valid
\* generateToken() and Date.now() are read, and INSERT INTO admin_sessions
\* is awaited
post_login_verify(i) ==
    /\ At(i, "login.json", "verify")
    /\ UNCHANGED <<authVars, call, libVars, now, ticks, admin_sessions, bucket, blog_posts,
                   post_seq, assocVars, tagVars>>
    /\ LET r == requests[i]
           user == CHOOSE u \in admin_users : u.id = r.id
       IN  IF ~verifyPassword(r.password, user.password_hash)
           THEN /\ Finish(i, "401", <<ErrCredentials>>)
                /\ UNCHANGED issued
           ELSE \E token \in NewIds :
                /\ issued' = issued \cup {token}
                /\ Await(i, [r EXCEPT !.pc = "insert", !.token = token,
                                      !.expiresAt = toISOString(now + 7 * DayTicks)])

\* login.json: the INSERT has run; the cookie is set and the answer is 200
post_login_insert(i) ==
    /\ At(i, "login.json", "insert")
    /\ UNCHANGED <<authVars, call, libVars, now, ticks, issued, bucket, blog_posts,
                   post_seq, assocVars, tagVars>>
    /\ LET r == requests[i] IN
       /\ admin_sessions' = admin_sessions \cup
              {[user_id |-> r.id, token |-> r.token, expires_at |-> r.expiresAt]}
       /\ requests' = RemoveAt(requests, i)
       /\ last' = Respond("login.json", "200", <<>>, r.token, r.id)

\* POST auth/logout.json
post_logout(cookie) ==
    /\ admin_sessions' = IF cookie # NoCookie
                         THEN { row \in admin_sessions : row.token # cookie }
                         ELSE admin_sessions
    /\ last' = Respond("logout.json", "200", <<>>, cookie, NoUser)
    /\ UNCHANGED <<authVars, call, libVars, assocVars, now, ticks, issued, blog_posts,
                   post_seq, bucket, tagVars, requests>>

\* GET auth/logout.json: await POST(context), whatever it answers, then
\* context.redirect('/admin/login')
get_logout(cookie) ==
    /\ admin_sessions' = IF cookie # NoCookie
                         THEN { row \in admin_sessions : row.token # cookie }
                         ELSE admin_sessions
    /\ last' = Respond("GET logout.json", "302", <<>>, cookie, NoUser)
    /\ UNCHANGED <<authVars, call, libVars, assocVars, now, ticks, issued, blog_posts,
                   post_seq, bucket, tagVars, requests>>

PostRowIds == {p.id : p \in blog_posts}
PostRow(id) == CHOOSE p \in blog_posts : p.id = id

ErrSlug == "UNIQUE constraint failed: blog_posts.slug"
ErrCategoryRow == "UNIQUE constraint failed: blog_post_categories.post_id, blog_post_categories.category_id"
ErrTagRow == "UNIQUE constraint failed: blog_post_tags.post_id, blog_post_tags.tag_id"
ErrForeignKey == "FOREIGN KEY constraint failed"
NoError == ""

\* INSERT INTO <table> (post_id, <ref>_id) VALUES (?, ?): the PRIMARY KEY
\* (post_id, <ref>_id) rejects a pair that is there, the FOREIGN KEYs a
\* post_id that is not in blog_posts and an id that is not in the table of
\* ids; the statement then throws and inserts nothing
InsertRow(table, postId, refId, ids, errUnique) ==
    IF <<postId, refId>> \in table
    THEN errUnique
    ELSE IF postId \notin PostRowIds \/ refId \notin ids
    THEN ErrForeignKey
    ELSE NoError

\* INSERT INTO <table> (post_id, <ref>_id) SELECT ?, <ref>_id FROM <table>
\* WHERE post_id = ?: the rows of post `from`, for post `to`.  One
\* statement: all of the rows are inserted, or it throws and none is
CopiedRows(table, from, to) == {<<to, r[2]>> : r \in {s \in table : s[1] = from}}
CopyRows(table, from, to, errUnique) ==
    IF CopiedRows(table, from, to) = {}
    THEN NoError
    ELSE IF CopiedRows(table, from, to) \cap table # {}
    THEN errUnique
    ELSE IF to \notin PostRowIds
    THEN ErrForeignKey
    ELSE NoError

\* the requests that will each insert a row of blog_posts
PendingInserts ==
    Cardinality({i \in DOMAIN requests :
                    requests[i].op = "blog/duplicate.json" /\ requests[i].pc = "insert"})

\* POST blog/create.json: the form is read and INSERT INTO blog_posts runs
\* (slug is UNIQUE); one INSERT for each category and each tag follows
blog_create(cookie, hasTitle, slug, categories, tags) ==
    /\ UNCHANGED <<requestFrame, bucket, assocVars, tagVars>>
    /\ IF ~hasTitle
       THEN /\ Reply("blog/create.json", cookie, "500", <<"Title is required">>)
            /\ UNCHANGED <<blog_posts, post_seq>>
       ELSE IF \E p \in blog_posts : p.slug = slug
       THEN /\ Reply("blog/create.json", cookie, "500", <<ErrSlug>>)
            /\ UNCHANGED <<blog_posts, post_seq>>
       ELSE LET postId == post_seq + 1 IN
            /\ post_seq + PendingInserts < MaxPosts
            /\ post_seq' = postId
            /\ blog_posts' = blog_posts \cup {[id |-> postId, slug |-> slug, author_id |-> 1]}
            /\ IF categories = <<>> /\ tags = <<>>
               THEN Reply("blog/create.json", cookie, "200", <<>>)
               ELSE Suspend([Request("blog/create.json",
                                     IF categories # <<>> THEN "categories" ELSE "tags",
                                     cookie, postId)
                                EXCEPT !.slug = slug, !.categories = categories,
                                       !.tags = tags, !.wrote = TRUE])

\* blog/create.json: INSERT INTO blog_post_categories, for the next category
blog_create_category(i) ==
    /\ At(i, "blog/create.json", "categories")
    /\ UNCHANGED <<requestFrame, bucket, blog_posts, post_seq, blog_post_tags, tagVars>>
    /\ LET r == requests[i]
           err == InsertRow(blog_post_categories, r.id, Head(r.categories), CategoryIds, ErrCategoryRow)
           rest == Tail(r.categories)
       IN  IF err # NoError
           THEN /\ Finish(i, "500", <<err>>)
                /\ UNCHANGED blog_post_categories
           ELSE /\ blog_post_categories' = blog_post_categories \cup {<<r.id, Head(r.categories)>>}
                /\ IF rest = <<>> /\ r.tags = <<>>
                   THEN Finish(i, "200", <<>>)
                   ELSE Await(i, [r EXCEPT !.categories = rest,
                                           !.pc = IF rest # <<>> THEN "categories" ELSE "tags"])

\* blog/create.json: INSERT INTO blog_post_tags, for the next tag
blog_create_tag(i) ==
    /\ At(i, "blog/create.json", "tags")
    /\ UNCHANGED <<requestFrame, bucket, blog_posts, post_seq, blog_post_categories, tagVars>>
    /\ LET r == requests[i]
           err == InsertRow(blog_post_tags, r.id, Head(r.tags), TagIds, ErrTagRow)
           rest == Tail(r.tags)
       IN  IF err # NoError
           THEN /\ Finish(i, "500", <<err>>)
                /\ UNCHANGED blog_post_tags
           ELSE /\ blog_post_tags' = blog_post_tags \cup {<<r.id, Head(r.tags)>>}
                /\ IF rest = <<>>
                   THEN Finish(i, "200", <<>>)
                   ELSE Await(i, [r EXCEPT !.tags = rest])

\* POST blog/update.json: the form is read and SELECT id FROM blog_posts
\* WHERE id = ? runs
blog_update(cookie, postId, hasTitle, slug, categories, tags) ==
    /\ UNCHANGED <<requestFrame, bucket, blog_posts, post_seq, assocVars, tagVars>>
    /\ IF postId = NoPostId
       THEN Reply("blog/update.json", cookie, "500", <<"Post ID is required">>)
       ELSE IF postId \notin PostRowIds
       THEN Reply("blog/update.json", cookie, "404", <<"Post not found">>)
       ELSE IF ~hasTitle
       THEN Reply("blog/update.json", cookie, "500", <<"Title is required">>)
       ELSE Suspend([Request("blog/update.json", "slug", cookie, postId)
                        EXCEPT !.slug = slug, !.categories = categories, !.tags = tags])

\* blog/update.json: SELECT id FROM blog_posts WHERE slug = ? AND id != ?
blog_update_slug(i) ==
    /\ At(i, "blog/update.json", "slug")
    /\ UNCHANGED <<requestFrame, bucket, blog_posts, post_seq, assocVars, tagVars>>
    /\ LET r == requests[i] IN
       IF \E p \in blog_posts : p.slug = r.slug /\ p.id # r.id
       THEN Finish(i, "500", <<"A post with this slug already exists">>)
       ELSE Await(i, [r EXCEPT !.pc = "update"])

\* blog/update.json: UPDATE blog_posts SET slug = ?, ... WHERE id = ?
blog_update_post(i) ==
    /\ At(i, "blog/update.json", "update")
    /\ UNCHANGED <<requestFrame, bucket, post_seq, assocVars, tagVars>>
    /\ LET r == requests[i] IN
       IF r.id \in PostRowIds /\ \E p \in blog_posts : p.slug = r.slug /\ p.id # r.id
       THEN /\ Finish(i, "500", <<ErrSlug>>)
            /\ UNCHANGED blog_posts
       ELSE /\ blog_posts' = {IF p.id = r.id THEN [p EXCEPT !.slug = r.slug] ELSE p : p \in blog_posts}
            /\ Await(i, [r EXCEPT !.pc = "delete_categories",
                                  !.wrote = r.id \in PostRowIds])

\* blog/update.json: DELETE FROM blog_post_categories WHERE post_id = ?
blog_update_delete_categories(i) ==
    /\ At(i, "blog/update.json", "delete_categories")
    /\ UNCHANGED <<requestFrame, bucket, blog_posts, post_seq, blog_post_tags, tagVars>>
    /\ LET r == requests[i] IN
       /\ blog_post_categories' = {a \in blog_post_categories : a[1] # r.id}
       /\ Await(i, [r EXCEPT !.pc = IF r.categories # <<>> THEN "categories" ELSE "delete_tags",
                             !.wrote = r.wrote \/ \E a \in blog_post_categories : a[1] = r.id])

\* blog/update.json: INSERT INTO blog_post_categories, for the next category
blog_update_category(i) ==
    /\ At(i, "blog/update.json", "categories")
    /\ UNCHANGED <<requestFrame, bucket, blog_posts, post_seq, blog_post_tags, tagVars>>
    /\ LET r == requests[i]
           err == InsertRow(blog_post_categories, r.id, Head(r.categories), CategoryIds, ErrCategoryRow)
           rest == Tail(r.categories)
       IN  IF err # NoError
           THEN /\ Finish(i, "500", <<err>>)
                /\ UNCHANGED blog_post_categories
           ELSE /\ blog_post_categories' = blog_post_categories \cup {<<r.id, Head(r.categories)>>}
                /\ Await(i, [r EXCEPT !.categories = rest, !.wrote = TRUE,
                                      !.pc = IF rest # <<>> THEN "categories" ELSE "delete_tags"])

\* blog/update.json: DELETE FROM blog_post_tags WHERE post_id = ?
blog_update_delete_tags(i) ==
    /\ At(i, "blog/update.json", "delete_tags")
    /\ UNCHANGED <<requestFrame, bucket, blog_posts, post_seq, blog_post_categories, tagVars>>
    /\ LET r == requests[i] IN
       /\ blog_post_tags' = {a \in blog_post_tags : a[1] # r.id}
       /\ IF r.tags = <<>>
          THEN Finish(i, "200", <<>>)
          ELSE Await(i, [r EXCEPT !.pc = "tags",
                                  !.wrote = r.wrote \/ \E a \in blog_post_tags : a[1] = r.id])

\* blog/update.json: INSERT INTO blog_post_tags, for the next tag
blog_update_tag(i) ==
    /\ At(i, "blog/update.json", "tags")
    /\ UNCHANGED <<requestFrame, bucket, blog_posts, post_seq, blog_post_categories, tagVars>>
    /\ LET r == requests[i]
           err == InsertRow(blog_post_tags, r.id, Head(r.tags), TagIds, ErrTagRow)
           rest == Tail(r.tags)
       IN  IF err # NoError
           THEN /\ Finish(i, "500", <<err>>)
                /\ UNCHANGED blog_post_tags
           ELSE /\ blog_post_tags' = blog_post_tags \cup {<<r.id, Head(r.tags)>>}
                /\ IF rest = <<>>
                   THEN Finish(i, "200", <<>>)
                   ELSE Await(i, [r EXCEPT !.tags = rest, !.wrote = TRUE])

\* DELETE blog/delete/[id].json: DELETE FROM blog_post_categories WHERE
\* post_id = ?
blog_delete(cookie, id) ==
    /\ UNCHANGED <<requestFrame, bucket, blog_posts, post_seq, blog_post_tags, tagVars>>
    /\ blog_post_categories' = {a \in blog_post_categories : a[1] # id}
    /\ Suspend(Request("blog/delete.json", "tags", cookie, id))

\* blog/delete/[id].json: DELETE FROM blog_post_tags WHERE post_id = ?
blog_delete_tags(i) ==
    /\ At(i, "blog/delete.json", "tags")
    /\ UNCHANGED <<requestFrame, bucket, blog_posts, post_seq, blog_post_categories, tagVars>>
    /\ blog_post_tags' = {a \in blog_post_tags : a[1] # requests[i].id}
    /\ Await(i, [requests[i] EXCEPT !.pc = "views"])

\* blog/delete/[id].json: DELETE FROM blog_views WHERE post_id = ?, a table
\* no handler of the repository writes
blog_delete_views(i) ==
    /\ At(i, "blog/delete.json", "views")
    /\ UNCHANGED <<requestFrame, bucket, blog_posts, post_seq, assocVars, tagVars>>
    /\ Await(i, [requests[i] EXCEPT !.pc = "post"])

\* blog/delete/[id].json: DELETE FROM blog_posts WHERE id = ?, which takes
\* the rows of the post in the association tables with it (ON DELETE CASCADE)
blog_delete_post(i) ==
    /\ At(i, "blog/delete.json", "post")
    /\ UNCHANGED <<requestFrame, bucket, post_seq, tagVars>>
    /\ blog_posts' = {p \in blog_posts : p.id # requests[i].id}
    /\ blog_post_categories' = {a \in blog_post_categories : a[1] # requests[i].id}
    /\ blog_post_tags' = {a \in blog_post_tags : a[1] # requests[i].id}
    /\ Finish(i, "200", <<>>)

\* POST blog/duplicate/[id].json: SELECT * FROM blog_posts WHERE id = ? runs,
\* Date.now() is read for the slug `${original.slug}-copy-${timestamp}`
blog_duplicate(cookie, id) ==
    /\ UNCHANGED <<requestFrame, bucket, blog_posts, post_seq, assocVars, tagVars>>
    /\ IF id \notin PostRowIds
       THEN Reply("blog/duplicate.json", cookie, "404", <<"Post not found">>)
       ELSE /\ post_seq + PendingInserts < MaxPosts
            /\ Suspend([Request("blog/duplicate.json", "insert", cookie, id)
                           EXCEPT !.slug = PostRow(id).slug \o CopySuffix \o <<"-">>
                                              \o Decimal(now)])

\* blog/duplicate/[id].json: INSERT INTO blog_posts (...) SELECT ?, ... FROM
\* blog_posts WHERE id = ? runs, with the new slug.  It inserts no row when the post is
\* no more; last_row_id is then the id of an earlier INSERT, and the two
\* statements that follow copy the rows of a post that has none
blog_duplicate_insert(i) ==
    /\ At(i, "blog/duplicate.json", "insert")
    /\ UNCHANGED <<requestFrame, bucket, assocVars, tagVars>>
    /\ LET r == requests[i]
           newSlug == r.slug
           newPostId == post_seq + 1
       IN  IF r.id \notin PostRowIds
           THEN /\ UNCHANGED <<blog_posts, post_seq>>
                /\ Await(i, [r EXCEPT !.pc = "categories"])
           ELSE IF \E p \in blog_posts : p.slug = newSlug
           THEN /\ UNCHANGED <<blog_posts, post_seq>>
                /\ Finish(i, "500", <<ErrSlug>>)
           ELSE /\ post_seq' = newPostId
                /\ blog_posts' = blog_posts \cup
                       {[id |-> newPostId, slug |-> newSlug, author_id |-> PostRow(r.id).author_id]}
                /\ Await(i, [r EXCEPT !.pc = "categories", !.newPostId = newPostId,
                                      !.wrote = TRUE])

\* blog/duplicate/[id].json: "Copy categories"
blog_duplicate_categories(i) ==
    /\ At(i, "blog/duplicate.json", "categories")
    /\ UNCHANGED <<requestFrame, bucket, blog_posts, post_seq, blog_post_tags, tagVars>>
    /\ LET r == requests[i]
           err == CopyRows(blog_post_categories, r.id, r.newPostId, ErrCategoryRow)
       IN  IF err # NoError
           THEN /\ Finish(i, "500", <<err>>)
                /\ UNCHANGED blog_post_categories
           ELSE /\ blog_post_categories' =
                       blog_post_categories \cup CopiedRows(blog_post_categories, r.id, r.newPostId)
                /\ Await(i, [r EXCEPT !.pc = "tags"])

\* blog/duplicate/[id].json: "Copy tags"
blog_duplicate_tags(i) ==
    /\ At(i, "blog/duplicate.json", "tags")
    /\ UNCHANGED <<requestFrame, bucket, blog_posts, post_seq, blog_post_categories, tagVars>>
    /\ LET r == requests[i]
           err == CopyRows(blog_post_tags, r.id, r.newPostId, ErrTagRow)
       IN  IF err # NoError
           THEN /\ Finish(i, "500", <<err>>)
                /\ UNCHANGED blog_post_tags
           ELSE /\ blog_post_tags' =
                       blog_post_tags \cup CopiedRows(blog_post_tags, r.id, r.newPostId)
                /\ Finish(i, "200", <<>>)

\* DELETE tags/delete.json: the body is read and DELETE FROM blog_post_tags
\* WHERE tag_id = ? runs
tags_delete(cookie, id) ==
    /\ UNCHANGED <<requestFrame, bucket, blog_posts, post_seq, blog_post_categories, tagVars>>
    /\ IF id = NoTag
       THEN /\ Reply("tags/delete.json", cookie, "400", <<"ID is required">>)
            /\ UNCHANGED blog_post_tags
       ELSE /\ blog_post_tags' = {a \in blog_post_tags : a[2] # id}
            /\ Suspend(Request("tags/delete.json", "tag", cookie, id))

\* tags/delete.json: DELETE FROM blog_tags WHERE id = ?, which takes the
\* rows of the tag in blog_post_tags with it (ON DELETE CASCADE)
tags_delete_tag(i) ==
    /\ At(i, "tags/delete.json", "tag")
    /\ UNCHANGED <<requestFrame, bucket, blog_posts, post_seq, blog_post_categories>>
    /\ blog_tags' = {t \in blog_tags : t.id # requests[i].id}
    /\ UNCHANGED tag_seq
    /\ blog_post_tags' = {a \in blog_post_tags : a[2] # requests[i].id}
    /\ Finish(i, "200", <<>>)

ErrTagSlug == "A tag with this slug already exists"

\* the slugs of the requests that will each insert a row of blog_tags
PendingTags == {requests[i].slug : i \in {j \in DOMAIN requests : requests[j].op = "tags/create.json"}}

\* POST of the tag create form: the form is read and checked, the slug is
\* made of the name when the form gives none, and SELECT id FROM blog_tags
\* WHERE slug = ? runs
tags_create(cookie, name, slug) ==
    LET theName == trim(name)
        theSlug == IF trim(slug) = NoText THEN categorySlug(theName) ELSE trim(slug)
    IN
    /\ UNCHANGED <<requestFrame, bucket, blog_posts, post_seq, assocVars, tagVars>>
    /\ IF theName = NoText
       THEN Reply("tags/create.json", cookie, "400", <<"Name is required">>)
       ELSE IF \E t \in blog_tags : t.slug = theSlug
       THEN Reply("tags/create.json", cookie, "400", <<ErrTagSlug>>)
       ELSE /\ tag_seq + Cardinality(PendingTags \cup {theSlug}) <= Len(TagSeed) + MaxTags
            /\ Suspend([Request("tags/create.json", "insert", cookie, NoTag)
                           EXCEPT !.name = theName, !.slug = theSlug])

\* tag create: INSERT INTO blog_tags (slug is UNIQUE); the catch answers
\* 'Failed to create tag'
tags_create_insert(i) ==
    /\ At(i, "tags/create.json", "insert")
    /\ UNCHANGED <<requestFrame, bucket, blog_posts, post_seq, assocVars>>
    /\ LET r == requests[i] IN
       IF \E t \in blog_tags : t.slug = r.slug
       THEN /\ UNCHANGED tagVars
            /\ Finish(i, "500", <<"Failed to create tag">>)
       ELSE /\ tag_seq' = tag_seq + 1
            /\ blog_tags' = blog_tags \cup
                   {[id |-> tag_seq + 1, name |-> r.name, slug |-> r.slug]}
            /\ Finish(i, "200", <<>>)

\* POST of the tag update form: the form is read and checked, the slug is
\* made of the name when the form gives none, and SELECT id FROM blog_tags
\* WHERE slug = ? AND id != ? runs
tags_update(cookie, id, name, slug) ==
    LET theName == trim(name)
        theSlug == IF trim(slug) = NoText THEN categorySlug(theName) ELSE trim(slug)
    IN
    /\ UNCHANGED <<requestFrame, bucket, blog_posts, post_seq, assocVars, tagVars>>
    /\ IF id = NoTag \/ theName = NoText
       THEN Reply("tags/update.json", cookie, "400", <<"ID and Name are required">>)
       ELSE IF \E t \in blog_tags : t.slug = theSlug /\ t.id # id
       THEN Reply("tags/update.json", cookie, "400", <<ErrTagSlug>>)
       ELSE Suspend([Request("tags/update.json", "update", cookie, id)
                        EXCEPT !.name = theName, !.slug = theSlug])

\* tag update: UPDATE blog_tags SET name = ?, slug = ? WHERE id = ?, which
\* changes no row when the tag is gone; the catch answers 'Failed to
\* update tag'
tags_update_tag(i) ==
    /\ At(i, "tags/update.json", "update")
    /\ UNCHANGED <<requestFrame, bucket, blog_posts, post_seq, assocVars, tag_seq>>
    /\ LET r == requests[i] IN
       IF r.id \notin TagIds
       THEN /\ UNCHANGED blog_tags
            /\ Finish(i, "200", <<>>)
       ELSE IF \E t \in blog_tags : t.slug = r.slug /\ t.id # r.id
       THEN /\ UNCHANGED blog_tags
            /\ Finish(i, "500", <<"Failed to update tag">>)
       ELSE /\ blog_tags' = {t \in blog_tags : t.id # r.id} \cup
                                 {[id |-> r.id, name |-> r.name, slug |-> r.slug]}
            /\ Finish(i, "200", <<>>)

ImagesDir == "blog-images/"
allowedTypes == {"image/jpeg", "image/jpg", "image/png", "image/gif", "image/webp"}
maxSize == 10485760     \* 10 * 1024 * 1024

\* name.split('.').pop(): the text after the last '.', the name when it has none
LastPart(name) ==
    IF \E i \in DOMAIN name : name[i] = "."
    THEN LET dot == CHOOSE i \in DOMAIN name :
                        name[i] = "." /\ \A j \in DOMAIN name : name[j] = "." => j <= i
         IN  SubSeq(name, dot + 1, Len(name))
    ELSE name

\* file.name.split('.').pop()?.toLowerCase() || 'jpg'
fileExtension(name) ==
    IF toLowerCase(LastPart(name)) = NoText
    THEN <<"j", "p", "g">>
    ELSE toLowerCase(LastPart(name))

\* the uploads that will each put an object
PendingUploads ==
    Cardinality({i \in DOMAIN requests : requests[i].op = "upload-image.json"})

\* POST upload-image.json: isAuthenticated
upload_image(cookie, file) ==
    /\ UNCHANGED <<requestFrame, bucket, blog_posts, post_seq, assocVars, tagVars>>
    /\ IF ~isAuthenticated(cookie)
       THEN Reply("upload-image.json", cookie, "401", <<"Unauthorized">>)
       ELSE /\ Cardinality(bucket) + PendingUploads < MaxImages
            /\ Suspend([Request("upload-image.json", "form", cookie, NoPostId)
                           EXCEPT !.file = file])

\* upload-image.json: the form is read and checked, Date.now() and
\* Math.random() are read for the key
\* `blog-images/${timestamp}-${randomString}.${fileExtension}`
upload_image_form(i, random) ==
    /\ At(i, "upload-image.json", "form")
    /\ UNCHANGED <<requestFrame, bucket, blog_posts, post_seq, assocVars, tagVars>>
    /\ LET r == requests[i] IN
       IF r.file = NoFile
       THEN Finish(i, "400", <<"No image file provided">>)
       ELSE IF r.file.type \notin allowedTypes
       THEN Finish(i, "400", <<"Invalid file type. Only JPG, PNG, GIF, and WebP are allowed.">>)
       ELSE IF r.file.size > maxSize
       THEN Finish(i, "400", <<"File size too large. Maximum size is 10MB.">>)
       ELSE Await(i, [r EXCEPT !.pc = "put",
                               !.key = [dir |-> ImagesDir, stamp |-> now, random |-> random,
                                        ext |-> fileExtension(r.file.name)]])

\* upload-image.json: bucket.put(uniqueFilename, arrayBuffer, ...)
upload_image_put(i) ==
    /\ At(i, "upload-image.json", "put")
    /\ UNCHANGED <<requestFrame, blog_posts, post_seq, assocVars, tagVars>>
    /\ bucket' = bucket \cup {requests[i].key}
    /\ Finish(i, "200", <<>>)

\* DELETE delete-image.json: isAuthenticated
delete_image(cookie, filename) ==
    /\ UNCHANGED <<requestFrame, bucket, blog_posts, post_seq, assocVars, tagVars>>
    /\ IF ~isAuthenticated(cookie)
       THEN Reply("delete-image.json", cookie, "401", <<"Unauthorized">>)
       ELSE Suspend([Request("delete-image.json", "head", cookie, NoPostId)
                        EXCEPT !.key = filename])

\* delete-image.json: the body is read and checked, bucket.head(filename)
delete_image_head(i) ==
    /\ At(i, "delete-image.json", "head")
    /\ UNCHANGED <<requestFrame, bucket, blog_posts, post_seq, assocVars, tagVars>>
    /\ LET r == requests[i] IN
       IF r.key = NoFilename
       THEN Finish(i, "400", <<"No filename provided">>)
       ELSE IF r.key.dir # ImagesDir
       THEN Finish(i, "400", <<"Invalid filename path">>)
       ELSE IF r.key \notin bucket
       THEN Finish(i, "404", <<"File not found">>)
       ELSE Await(i, [r EXCEPT !.pc = "delete"])

\* delete-image.json: bucket.delete(filename)
delete_image_delete(i) ==
    /\ At(i, "delete-image.json", "delete")
    /\ UNCHANGED <<requestFrame, blog_posts, post_seq, assocVars, tagVars>>
    /\ bucket' = bucket \ {requests[i].key}
    /\ Finish(i, "200", <<>>)

Hello == <<"h", "e", "l", "l", "o">>
World == <<"w", "o", "r", "l", "d">>
Slugs == {Hello, World}
Randoms == {1}
FilePng == [name |-> <<"a", ".", "P", "N", "G">>, type |-> "image/png", size |-> maxSize]
FileText == [name |-> <<"a", ".", "t", "x", "t">>, type |-> "text/plain", size |-> 1]
FileLarge == [name |-> <<"a", ".", "p", "n", "g">>, type |-> "image/png", size |-> maxSize + 1]
Files == {NoFile, FilePng, FileText, FileLarge}
Filenames == bucket \cup {NoFilename, [dir |-> "other/", stamp |-> 0, random |-> 1, ext |-> <<"p", "n", "g">>]}

\* the steps of the suspended handlers of the blog post routes
BlogSteps ==
    \E i \in 1..MaxRequests :
        \/ blog_create_category(i)
        \/ blog_create_tag(i)
        \/ blog_update_slug(i)
        \/ blog_update_post(i)
        \/ blog_update_delete_categories(i)
        \/ blog_update_category(i)
        \/ blog_update_delete_tags(i)
        \/ blog_update_tag(i)
        \/ blog_delete_tags(i)
        \/ blog_delete_views(i)
        \/ blog_delete_post(i)
        \/ blog_duplicate_insert(i)
        \/ blog_duplicate_categories(i)
        \/ blog_duplicate_tags(i)

\* the steps of the suspended handlers of the tag routes
TagSteps ==
    \E i \in 1..MaxRequests :
        \/ tags_delete_tag(i)
        \/ tags_create_insert(i)
        \/ tags_update_tag(i)

\* the steps of the suspended handlers of the session routes
SessionSteps ==
    \E i \in 1..MaxRequests :
        \/ post_login_form(i)
        \/ post_login_select(i)
        \/ post_login_verify(i)
        \/ post_login_insert(i)

\* the steps of the suspended handlers of the image routes
ImageSteps ==
    \E i \in 1..MaxRequests :
        \/ \E x \in Randoms : upload_image_form(i, x)
        \/ upload_image_put(i)
        \/ delete_image_head(i)
        \/ delete_image_delete(i)

\* the names the tag forms give: none, blanks, the name of a default tag
\* other than tag 1, a new name between blanks
TagNames == {NoText, <<" ">>, TagSeed[2].name, <<" ", "A", " ", "-", " ", "b", "!", " ">>}

\* the forms of login.json: without an email, with the email of no
\* administrator, with a wrong password, with the password
LoginForms == {<<NoText, PwStrong>>, <<EmailUpper, PwStrong>>, <<EmailLower, PwOther>>,
               <<EmailLower, PwStrong>>}

\* the session routes, a post created without a cookie, and the clock.  A
\* request arrives at any time, while fewer than MaxRequests handlers are
\* suspended
NextHttp ==
    \/ \E f \in LoginForms : post_login(f[1], f[2])
    \/ \E c \in Presentable : post_logout(c)
    \/ \E c \in Presentable : get_logout(c)
    \/ blog_create(NoCookie, TRUE, Hello, <<>>, <<>>)
    \/ SessionSteps
    \/ Clock

SpecHttp == Init /\ [][NextHttp]_vars

(***************************************************************************)
(* The image routes, called without a cookie or with the cookie of a       *)
(* login, and the clock.                                                   *)
(***************************************************************************)
NextImages ==
    \/ post_login(EmailLower, PwStrong)
    \/ \E c \in Presentable, f \in Files : upload_image(c, f)
    \/ \E c \in Presentable, f \in Filenames : delete_image(c, f)
    \/ SessionSteps
    \/ ImageSteps
    \/ Clock

SpecImages == Init /\ [][NextImages]_vars

(***************************************************************************)
(* The tag routes, called without a cookie, and posts created with tag 1.  *)
(***************************************************************************)
NextTags ==
    \/ \E id \in {NoTag, 1} : tags_delete(NoCookie, id)
    \/ \E n \in TagNames : tags_create(NoCookie, n, NoText)
    \/ \E id \in {NoTag, 1}, n \in TagNames : tags_update(NoCookie, id, n, NoText)
    \/ blog_create(NoCookie, TRUE, Hello, <<>>, <<1>>)
    \/ \E i \in 1..MaxRequests : blog_create_tag(i)
    \/ TagSteps

SpecTags == Init /\ [][NextTags]_vars

(***************************************************************************)
(* The blog post routes, called without a cookie.  The forms name no       *)
(* category and no tag, under either slug, or, under one slug, category 1  *)
(* and tag 1, category 1 twice, or tag 9, which does not exist.  A request *)
(* arrives at any time, while fewer than MaxRequests handlers are          *)
(* suspended.                                                              *)
(***************************************************************************)
Form(slug, categories, tags) == [slug |-> slug, categories |-> categories, tags |-> tags]
CreateForms == {Form(Hello, <<>>, <<>>), Form(World, <<>>, <<>>), Form(Hello, <<1>>, <<1>>),
                Form(Hello, <<1, 1>>, <<>>), Form(Hello, <<>>, <<9>>)}
UpdateForms == {Form(Hello, <<>>, <<>>), Form(World, <<>>, <<>>), Form(World, <<1>>, <<1>>),
                Form(World, <<1, 1>>, <<>>), Form(World, <<>>, <<9>>)}

NextBlog ==
    \/ blog_create(NoCookie, FALSE, Hello, <<>>, <<>>)
    \/ \E f \in CreateForms : blog_create(NoCookie, TRUE, f.slug, f.categories, f.tags)
    \/ \E id \in NoPostId..MaxPosts : blog_update(NoCookie, id, FALSE, Hello, <<>>, <<>>)
    \/ \E id \in 1..MaxPosts, f \in UpdateForms :
          blog_update(NoCookie, id, TRUE, f.slug, f.categories, f.tags)
    \/ \E id \in 1..MaxPosts : blog_delete(NoCookie, id)
    \/ \E id \in 1..MaxPosts : blog_duplicate(NoCookie, id)
    \/ BlogSteps

SpecBlog == Init /\ [][NextBlog]_vars

(***************************************************************************)
(* The pure functions, each applied to arguments drawn from small sets.    *)
(***************************************************************************)
Roles == {"admin", "editor", "author", "guest"} \cup ObjectPrototypeKeys
PermissionActions == {"create", "read", "update", "delete", "publish", "manage_users", "comment"}

Bytes == 0..1
ByteArrays == UNION {[1..n -> Bytes] : n \in 1..MaxBytes}

\* service.hasPermission(user, action)
HasPermissionCall(role, action) ==
    /\ call' = [op |-> "hasPermission", role |-> role, action |-> action,
                result |-> hasPermission(role, action)]
    /\ UNCHANGED <<authVars, httpVars, libVars, now, ticks, issued, last>>

\* the comparison of verifyPassword, of one derived hash against two stored ones
VerifyPasswordCall(storedHash1, storedHash2, testHashArray) ==
    /\ call' = [op |-> "verifyPassword",
                storedHash |-> <<storedHash1, storedHash2>>,
                testHashArray |-> testHashArray,
                result |-> <<CompareArrays(storedHash1, testHashArray).equal,
                             CompareArrays(storedHash2, testHashArray).equal>>,
                comparisons |-> <<CompareArrays(storedHash1, testHashArray).comparisons,
                                  CompareArrays(storedHash2, testHashArray).comparisons>>]
    /\ UNCHANGED <<authVars, httpVars, libVars, now, ticks, issued, last>>

NextPure ==
    \/ \E r \in Roles, a \in PermissionActions : HasPermissionCall(r, a)
    \/ \E s1, s2, t \in ByteArrays : VerifyPasswordCall(s1, s2, t)

SpecPure == Init /\ [][NextPure]_vars

(***************************************************************************)
(* validatePassword, applied directly and by createUser, to passwords      *)
(* that violate every combination of its four rules.                       *)
(***************************************************************************)
PasswordSamples ==
    {PwStrong, PwWeak,
     <<"S","e","c","u","r","e","P","a","s","s","1","2","3">>,
     <<"S","h","o","r","t","1">>,
     <<"l","o","w","e","r","c","a","s","e","1","2","3">>,
     <<"U","P","P","E","R","C","A","S","E","1","2","3">>,
     <<"N","o","N","u","m","b","e","r","s">>,
     <<"S","H","O","R","T","1">>,
     <<"S","h","o","r","t">>,
     <<"1","2","3","4","5","6","7","8">>,
     <<"l","o","w","e","r","c","a","s","e">>,
     <<"U","P","P","E","R","C","A","S","E">>,
     <<"1","2","3">>,
     <<"a","b","c">>,
     <<"A","B","C">>,
     <<"!","!","!","!","!","!","!","!">>,
     <<>>}

\* service.validatePassword(password)
ValidatePasswordCall(password) ==
    /\ call' = [op |-> "validatePassword", password |-> password,
                result |-> validatePassword(password)]
    /\ UNCHANGED <<authVars, httpVars, libVars, now, ticks, issued, last>>

NextValidate ==
    \/ \E p \in PasswordSamples : ValidatePasswordCall(p)
    \/ \E p \in PasswordSamples : CreateUser(EmailLower, p, NoRole)
    \/ CreateUserResume

SpecValidate == Init /\ [][NextValidate]_vars

(***************************************************************************)
(* Properties of the pure functions (SpecPure)                             *)
(***************************************************************************)
(* BlogService (tests/api/auth.test.ts): an in-memory map of posts.  Its   *)
(* methods are async but await nothing, so each call runs to its end       *)
(* before any other call begins.                                           *)
(***************************************************************************)
SlugChars == LowerChars \cup DigitChars

\* .replace(/[^a-z0-9]+/g, '-'): every run of other characters becomes one '-'
RECURSIVE DropRun(_)
DropRun(s) ==
    IF s = <<>> \/ Head(s) \in SlugChars THEN s ELSE DropRun(Tail(s))

RECURSIVE ReplaceRuns(_)
ReplaceRuns(s) ==
    IF s = <<>> THEN <<>>
    ELSE IF Head(s) \in SlugChars THEN <<Head(s)>> \o ReplaceRuns(Tail(s))
    ELSE <<"-">> \o ReplaceRuns(DropRun(Tail(s)))

\* .replace(/^-|-$/g, ''): one '-' at the start and one at the end are removed
StripDashes(s) ==
    LET t == IF s # <<>> /\ Head(s) = "-" THEN Tail(s) ELSE s
    IN  IF t # <<>> /\ t[Len(t)] = "-" THEN SubSeq(t, 1, Len(t) - 1) ELSE t

\* String.prototype.substring(0, n)
substring0(s, n) == SubSeq(s, 1, IF Len(s) < n THEN Len(s) ELSE n)

generateSlug(title) == substring0(StripDashes(ReplaceRuns(toLowerCase(title))), 200)

PostIds == DOMAIN posts

\* getBySlugSync(slug) finds a post
getBySlugSync(slug) == \E i \in PostIds : posts[i].slug = slug

\* the loop of duplicate: the slug it ends with, counter being the next suffix
RECURSIVE CopySlugFrom(_, _, _)
CopySlugFrom(slug, newSlug, counter) ==
    IF getBySlugSync(newSlug)
    THEN CopySlugFrom(slug, slug \o CopySuffix \o <<"-">> \o Decimal(counter), counter + 1)
    ELSE newSlug

\* the post create builds from its input; '' and an absent slug are both falsy
NewPost(input, authorId) ==
    [id |-> nextId,
     title |-> input.title,
     slug |-> IF input.slug # NoText THEN input.slug ELSE generateSlug(input.title),
     status |-> IF input.status # NoText THEN input.status ELSE <<"d","r","a","f","t">>,
     author_id |-> authorId,
     created_at |-> toISOString(now),
     updated_at |-> toISOString(now),
     published_at |-> IF input.status = <<"p","u","b","l","i","s","h","e","d">>
                      THEN toISOString(now) ELSE NoText]

\* the body of create, shared by create and duplicate
CreateBody(op, arg, input, authorId) ==
    LET post == NewPost(input, authorId)
    IN  IF getBySlugSync(post.slug)
        THEN /\ call' = [op |-> op, arg |-> arg, res |-> "throw",
                         err |-> "Slug already exists", post |-> NoUser]
             /\ UNCHANGED <<posts, nextId>>
        ELSE /\ nextId' = nextId + 1
             /\ posts' = [i \in PostIds \cup {post.id} |->
                             IF i = post.id THEN post ELSE posts[i]]
             /\ call' = [op |-> op, arg |-> arg, res |-> "return",
                         err |-> "", post |-> post.id]

\* the rest of the state, which BlogService does not touch
blogFrame == <<authVars, httpVars, cmVars, nonceVars, rateVars, catVars, now, ticks, issued, last>>

BlogService_create(input, authorId) ==
    /\ nextId <= MaxBlogPosts
    /\ CreateBody("create", input, input, authorId)
    /\ UNCHANGED blogFrame

\* { ...post, ...input }: the fields of input override those of post
Spread(post, input) ==
    [k \in DOMAIN post \cup DOMAIN input |->
        IF k \in DOMAIN input THEN input[k] ELSE post[k]]

BlogService_update(input) ==
    /\ IF input.id \notin PostIds
       THEN /\ call' = [op |-> "update", arg |-> input, res |-> "throw",
                        err |-> "Post not found", post |-> NoUser]
            /\ UNCHANGED posts
       ELSE LET post == posts[input.id]
                changing == "slug" \in DOMAIN input /\ input.slug # NoText
                            /\ input.slug # post.slug
            IN  IF changing /\ \E i \in PostIds :
                                  posts[i].slug = input.slug /\ i # input.id
                THEN /\ call' = [op |-> "update", arg |-> input, res |-> "throw",
                                 err |-> "Slug already exists", post |-> NoUser]
                     /\ UNCHANGED posts
                ELSE /\ posts' = [posts EXCEPT ![input.id] =
                            [Spread(post, input) EXCEPT
                                !.updated_at = toISOString(now),
                                !.published_at =
                                    IF "status" \in DOMAIN input
                                       /\ input.status = <<"p","u","b","l","i","s","h","e","d">>
                                       /\ post.published_at = NoText
                                    THEN toISOString(now) ELSE post.published_at]]
                     /\ call' = [op |-> "update", arg |-> input, res |-> "return",
                                 err |-> "", post |-> input.id]
    /\ UNCHANGED <<nextId, blogFrame>>

\* Map.prototype.delete
BlogService_delete(id) ==
    /\ posts' = [i \in PostIds \ {id} |-> posts[i]]
    /\ call' = [op |-> "delete", arg |-> id,
                res |-> "return", err |-> "", post |-> NoUser]
    /\ UNCHANGED <<nextId, blogFrame>>

\* clear(): the posts are dropped and the ids start again
BlogService_clear ==
    /\ posts' = <<>>
    /\ nextId' = 1
    /\ call' = [op |-> "clear", arg |-> NoUser,
                res |-> "return", err |-> "", post |-> NoUser]
    /\ UNCHANGED blogFrame

\* the input duplicate hands to create
CopyInput(original, newSlug) ==
    [title |-> original.title \o <<" ", "(", "C", "o", "p", "y", ")">>,
     slug |-> newSlug,
     status |-> <<"d","r","a","f","t">>]

BlogService_duplicate_firstCandidate(id, authorId) ==
    /\ nextId <= MaxBlogPosts
    /\ IF id \notin PostIds
       THEN /\ call' = [op |-> "duplicate", arg |-> id, res |-> "throw",
                        err |-> "Post not found", post |-> NoUser]
            /\ UNCHANGED <<posts, nextId>>
       ELSE CreateBody("duplicate", id,
                       CopyInput(posts[id], posts[id].slug \o CopySuffix), authorId)
    /\ UNCHANGED blogFrame

BlogService_duplicate(id, authorId) ==
    /\ nextId <= MaxBlogPosts
    /\ IF id \notin PostIds
       THEN /\ call' = [op |-> "duplicate", arg |-> id, res |-> "throw",
                        err |-> "Post not found", post |-> NoUser]
            /\ UNCHANGED <<posts, nextId>>
       ELSE CreateBody("duplicate", id,
                       CopyInput(posts[id],
                                 CopySlugFrom(posts[id].slug,
                                              posts[id].slug \o CopySuffix, 1)),
                       authorId)
    /\ UNCHANGED blogFrame

Titles == {<<"A", " ", "b", "!">>, <<"!">>}
SlugInputs == {NoText, <<"a">>}
AuthorIds == {1}
CreateInputs == [title : Titles, slug : SlugInputs, status : {NoText}]
UpdateFields ==
    {[id |-> i] : i \in 1..MaxBlogPosts}
    \cup {[id |-> i, slug |-> g] : i \in 1..MaxBlogPosts, g \in SlugInputs}

NextBlogService ==
    \/ \E input \in CreateInputs, a \in AuthorIds : BlogService_create(input, a)
    \/ \E input \in UpdateFields : BlogService_update(input)
    \/ \E i \in 1..MaxBlogPosts : BlogService_delete(i)
    \/ \E i \in 1..MaxBlogPosts, a \in AuthorIds : BlogService_duplicate(i, a)
    \/ BlogService_clear

SpecBlogService == Init /\ [][NextBlogService]_vars

(***************************************************************************)
(* ComponentManager (tests/lib/componentManager.test.ts): the registered   *)
(* components and the history of their updates.  Its methods are           *)
(* synchronous.                                                            *)
(***************************************************************************)
maxHistory == 50

\* the rest of the state, which ComponentManager does not touch
cmFrame == <<authVars, httpVars, blogVars, nonceVars, rateVars, catVars, now, ticks, issued, last>>

ComponentManager_register(id, type, props) ==
    /\ components' = [i \in DOMAIN components \cup {id} |->
                         IF i = id THEN [id |-> id, type |-> type,
                                         props |-> props, version |-> 1]
                         ELSE components[i]]
    /\ call' = [op |-> "register", id |-> id]
    /\ UNCHANGED <<history, cmFrame>>

\* the entry update pushes on the history
ComponentUpdate(id, changes) ==
    [componentId |-> id, type |-> components[id].type, changes |-> changes]

ComponentManager_update_keepsOldest(id, changes) ==
    /\ IF id \notin DOMAIN components
       THEN /\ call' = [op |-> "update", id |-> id, changes |-> changes, result |-> FALSE, shifted |-> FALSE]
            /\ UNCHANGED <<components, history>>
       ELSE /\ components[id].version < MaxVersion
            /\ history' = IF Len(history) + 1 > maxHistory
                          THEN history
                          ELSE Append(history, ComponentUpdate(id, changes))
            /\ components' = [components EXCEPT
                                 ![id].props = Spread(@, changes),
                                 ![id].version = @ + 1]
            /\ call' = [op |-> "update", id |-> id, changes |-> changes, result |-> TRUE,
                        shifted |-> Len(history) + 1 > maxHistory]
    /\ UNCHANGED cmFrame

\* shifted tells whether history.shift() ran
ComponentManager_update(id, changes) ==
    /\ IF id \notin DOMAIN components
       THEN /\ call' = [op |-> "update", id |-> id, changes |-> changes, result |-> FALSE, shifted |-> FALSE]
            /\ UNCHANGED <<components, history>>
       ELSE /\ components[id].version < MaxVersion
            /\ history' = IF Len(history) + 1 > maxHistory
                          THEN Tail(Append(history, ComponentUpdate(id, changes)))
                          ELSE Append(history, ComponentUpdate(id, changes))
            /\ components' = [components EXCEPT
                                 ![id].props = Spread(@, changes),
                                 ![id].version = @ + 1]
            /\ call' = [op |-> "update", id |-> id, changes |-> changes, result |-> TRUE,
                        shifted |-> Len(history) + 1 > maxHistory]
    /\ UNCHANGED cmFrame

\* what undo returns when the history is empty
NoUpdate == [componentId |-> "", type |-> "", changes |-> <<>>]

ComponentManager_undo_oldest ==
    /\ IF history = <<>>
       THEN /\ call' = [op |-> "undo", result |-> NoUpdate]
            /\ UNCHANGED history
       ELSE /\ call' = [op |-> "undo", result |-> Head(history)]
            /\ history' = Tail(history)
    /\ UNCHANGED <<components, cmFrame>>

\* this.history.pop() || null
ComponentManager_undo ==
    /\ IF history = <<>>
       THEN /\ call' = [op |-> "undo", result |-> NoUpdate]
            /\ UNCHANGED history
       ELSE /\ call' = [op |-> "undo", result |-> history[Len(history)]]
            /\ history' = SubSeq(history, 1, Len(history) - 1)
    /\ UNCHANGED <<components, cmFrame>>

ComponentManager_clear ==
    /\ components' = <<>>
    /\ history' = <<>>
    /\ call' = [op |-> "clear"]
    /\ UNCHANGED cmFrame

ComponentManager_remove(id) ==
    /\ components' = [i \in DOMAIN components \ {id} |-> components[i]]
    /\ call' = [op |-> "remove", id |-> id]
    /\ UNCHANGED <<history, cmFrame>>

\* the component the calls register, and an id that is never registered
Registered == "img-1"
ComponentIds == {Registered, "non-existent"}
InitialProps == [src |-> "/test.jpg"]
\* the changes of an ordinary update, and of one that is told apart from them
Changes == [src |-> "/v1.jpg"]
MarkedChanges == [src |-> "/v2.jpg"]
Marked(i) == history[i].changes = MarkedChanges

\* updates with MarkedChanges are made while no such entry is in the history
NextComponents ==
    \/ ComponentManager_register(Registered, "image", InitialProps)
    \/ \E id \in ComponentIds : ComponentManager_update(id, Changes)
    \/ /\ \A i \in DOMAIN history : ~Marked(i)
       /\ ComponentManager_update(Registered, MarkedChanges)
    \/ ComponentManager_undo
    \/ ComponentManager_clear
    \/ \E id \in ComponentIds : ComponentManager_remove(id)

SpecComponents == Init /\ [][NextComponents]_vars

(***************************************************************************)
(* Wallet authentication (unnamed/part_008): nonces and the rate limit.    *)
(* Both keep a module-level map and read Date.now(); in their              *)
(* specifications the clock counts milliseconds.  A nonce is named by the  *)
(* order of its generation, and no two generated nonces are equal.         *)
(***************************************************************************)
NONCE_EXPIRY == 300000      \* 5 * 60 * 1000

\* a nonce generateNonce never returns
NoNonce == 0

\* the rest of the state, which the nonce functions do not touch
nonceFrame == <<authVars, httpVars, blogVars, cmVars, rateVars, catVars, now, ticks, issued, last>>

\* Map.prototype.set and Map.prototype.delete
MapSet(map, key, value) ==
    [k \in DOMAIN map \cup {key} |-> IF k = key THEN value ELSE map[k]]
MapDelete(map, key) == [k \in DOMAIN map \ {key} |-> map[k]]

generateNonce(address) ==
    /\ Len(nonceLog) < MaxNonces
    /\ LET nonce == Len(nonceLog) + 1
           expiry == now + NONCE_EXPIRY
       IN  /\ nonceStore' = MapSet(nonceStore, toLowerCase(address),
                                   [nonce |-> nonce, expiry |-> expiry])
           /\ nonceLog' = Append(nonceLog, [address |-> toLowerCase(address),
                                            expiry |-> expiry, accepted |-> FALSE])
           /\ call' = [op |-> "generateNonce", address |-> address,
                       nonce |-> nonce, result |-> TRUE]
    /\ UNCHANGED nonceFrame

\* what validateNonce returns
validateNonceResult(address, nonce) ==
    LET key == toLowerCase(address)
    IN  /\ key \in DOMAIN nonceStore
        /\ nonceStore[key].nonce = nonce
        /\ ~(now > nonceStore[key].expiry)

\* what validateNonce does to the store: the stored nonce, when it is the
\* one given, is deleted whether it has expired or not
validateNonceBody_keepsNonce(address, nonce) ==
    /\ UNCHANGED nonceStore
    /\ nonceLog' = IF validateNonceResult(address, nonce)
                   THEN [nonceLog EXCEPT ![nonce].accepted = TRUE]
                   ELSE nonceLog

validateNonceBody(address, nonce) ==
    LET key == toLowerCase(address)
    IN  /\ nonceStore' = IF key \in DOMAIN nonceStore /\ nonceStore[key].nonce = nonce
                         THEN MapDelete(nonceStore, key)
                         ELSE nonceStore
        /\ nonceLog' = IF validateNonceResult(address, nonce)
                       THEN [nonceLog EXCEPT ![nonce].accepted = TRUE]
                       ELSE nonceLog

validateNonce(address, nonce) ==
    /\ validateNonceBody(address, nonce)
    /\ call' = [op |-> "validateNonce", address |-> address, nonce |-> nonce,
                result |-> validateNonceResult(address, nonce)]
    /\ UNCHANGED nonceFrame

\* verifySignature: the message holds the nonce or not, and the signature
\* is that of the address recovered
verifySignature(address, recovered, messageHasNonce, nonce) ==
    /\ validateNonceBody(address, nonce)
    /\ call' = [op |-> "verifySignature", address |-> address, nonce |-> nonce,
                validNonce |-> validateNonceResult(address, nonce),
                result |-> /\ validateNonceResult(address, nonce)
                           /\ messageHasNonce
                           /\ toLowerCase(recovered) = toLowerCase(address)]
    /\ UNCHANGED nonceFrame

\* the setInterval callback
cleanupNonces ==
    /\ nonceStore' = [k \in {a \in DOMAIN nonceStore : ~(now > nonceStore[a].expiry)} |->
                          nonceStore[k]]
    /\ call' = [op |-> "cleanup"]
    /\ UNCHANGED <<nonceLog, nonceFrame>>

Addresses == {<<"0", "x", "A", "b">>, <<"0", "x", "a", "b">>, <<"0", "x", "c", "d">>}
\* the addresses whose signatures are presented
Signers == {<<"0", "x", "a", "b">>, <<"0", "x", "c", "d">>}
Nonces == {NoNonce} \cup 1..MaxNonces

NextNonce ==
    \/ \E a \in Addresses : generateNonce(a)
    \/ \E a \in Addresses, n \in Nonces : validateNonce(a, n)
    \/ \E a \in Signers, r \in Signers, m \in BOOLEAN, n \in Nonces :
           verifySignature(a, r, m, n)
    \/ cleanupNonces
    \/ \E d \in {1, NONCE_EXPIRY} : Tick(d)

SpecNonce == Init /\ [][NextNonce]_vars

(***************************************************************************)
(* The rate limit of authentication attempts (unnamed/part_008).           *)
(***************************************************************************)
MAX_ATTEMPTS == IF DEV THEN 50 ELSE 5
RATE_LIMIT_WINDOW == IF DEV THEN 60 * 1000 ELSE 15 * 60 * 1000

\* the rest of the state, which checkRateLimit does not touch
rateFrame == <<authVars, httpVars, blogVars, cmVars, nonceVars, catVars, now, ticks, issued, last>>

\* rateLimitStore.get(identifier) found nothing
NoLimit == [attempts |-> 0, resetTime |-> 0]

\* rateLog after a call: a call made after the end of the window of the
\* identifier, or the first one, opens a window
Logged(identifier, result) ==
    LET fresh == identifier \notin DOMAIN rateLog \/ now > rateLog[identifier].windowEnd
        allowed == IF fresh THEN 0 ELSE rateLog[identifier].allowed
    IN  MapSet(rateLog, identifier,
               [windowEnd |-> IF fresh THEN now + RATE_LIMIT_WINDOW
                              ELSE rateLog[identifier].windowEnd,
                allowed |-> IF result THEN allowed + 1 ELSE allowed])

checkRateLimit_allowsOneMore(identifier) ==
    LET limit == IF identifier \in DOMAIN rateLimitStore
                 THEN rateLimitStore[identifier] ELSE NoLimit
    IN  /\ IF identifier \notin DOMAIN rateLimitStore \/ now > limit.resetTime
           THEN /\ rateLimitStore' = MapSet(rateLimitStore, identifier,
                        [attempts |-> 1, resetTime |-> now + RATE_LIMIT_WINDOW])
                /\ call' = [op |-> "checkRateLimit", identifier |-> identifier,
                            limit |-> limit, result |-> TRUE]
                /\ rateLog' = Logged(identifier, TRUE)
           ELSE IF limit.attempts > MAX_ATTEMPTS
           THEN /\ UNCHANGED rateLimitStore
                /\ call' = [op |-> "checkRateLimit", identifier |-> identifier,
                            limit |-> limit, result |-> FALSE]
                /\ rateLog' = Logged(identifier, FALSE)
           ELSE /\ rateLimitStore' = [rateLimitStore EXCEPT ![identifier].attempts = @ + 1]
                /\ call' = [op |-> "checkRateLimit", identifier |-> identifier,
                            limit |-> limit, result |-> TRUE]
                /\ rateLog' = Logged(identifier, TRUE)
        /\ UNCHANGED <<DEV, rateFrame>>

\* limit is the entry the call found in the store
checkRateLimit(identifier) ==
    LET limit == IF identifier \in DOMAIN rateLimitStore
                 THEN rateLimitStore[identifier] ELSE NoLimit
    IN  /\ IF identifier \notin DOMAIN rateLimitStore \/ now > limit.resetTime
           THEN /\ rateLimitStore' = MapSet(rateLimitStore, identifier,
                        [attempts |-> 1, resetTime |-> now + RATE_LIMIT_WINDOW])
                /\ call' = [op |-> "checkRateLimit", identifier |-> identifier,
                            limit |-> limit, result |-> TRUE]
                /\ rateLog' = Logged(identifier, TRUE)
           ELSE IF limit.attempts >= MAX_ATTEMPTS
           THEN /\ UNCHANGED rateLimitStore
                /\ call' = [op |-> "checkRateLimit", identifier |-> identifier,
                            limit |-> limit, result |-> FALSE]
                /\ rateLog' = Logged(identifier, FALSE)
           ELSE /\ rateLimitStore' = [rateLimitStore EXCEPT ![identifier].attempts = @ + 1]
                /\ call' = [op |-> "checkRateLimit", identifier |-> identifier,
                            limit |-> limit, result |-> TRUE]
                /\ rateLog' = Logged(identifier, TRUE)
        /\ UNCHANGED <<DEV, rateFrame>>

\* either build
InitRate ==
    /\ InitClock /\ InitAuth /\ InitHttp
    /\ InitModules /\ InitCategories
    /\ DEV \in BOOLEAN
    /\ InitRateStores

\* two callers in a production build, one in a development build
Identifiers == IF DEV THEN {"1.2.3.4"} ELSE {"1.2.3.4", "5.6.7.8"}

NextRate ==
    \/ \E i \in Identifiers : checkRateLimit(i)
    \/ \E d \in {1, RATE_LIMIT_WINDOW} : Tick(d)

SpecRate == InitRate /\ [][NextRate]_vars

(***************************************************************************)
(* The category handlers (pages/admin/api/categories, unnamed/part_004).   *)
(* The database is Cloudflare D1, which enforces the foreign keys the      *)
(* migration declares: parent_id REFERENCES blog_categories(id), and       *)
(* blog_post_categories.category_id REFERENCES blog_categories(id) ON      *)
(* DELETE CASCADE.  The handlers await their statements one by one, and    *)
(* other requests run between them.                                        *)
(***************************************************************************)
Category(id) == CHOOSE c \in blog_categories : c.id = id

\* what no step of a category handler changes
catFrame == <<authVars, call, blogVars, cmVars, nonceVars, rateVars, now, ticks, issued,
              admin_sessions, bucket, blog_posts, post_seq, blog_post_tags, tagVars>>

ErrCategorySlug == "A category with this slug already exists"

\* the slugs of the requests that will each insert a row of blog_categories
PendingCategories ==
    {requests[i].slug : i \in {j \in DOMAIN requests : requests[j].op = "categories/create.json"}}

\* a category that names parent has been written: the delete requests of
\* parent that have run their first statement take note of it
Raced(parent) ==
    [i \in DOMAIN requests |->
        IF /\ requests[i].op = "categories/delete.json"
           /\ requests[i].pc \in {"children", "category"}
           /\ requests[i].id = parent
        THEN [requests[i] EXCEPT !.raced = TRUE]
        ELSE requests[i]]

\* POST categories/create.json: the form is read and checked, the slug is
\* made of the name when the form gives none, and SELECT id FROM
\* blog_categories WHERE slug = ? runs
category_create(name, slug, parent_id) ==
    LET theName == trim(name)
        theSlug == IF trim(slug) = NoText THEN categorySlug(theName) ELSE trim(slug)
    IN
    /\ UNCHANGED <<catFrame, blog_categories, cat_seq, blog_post_categories>>
    /\ cat_log' = NoLog
    /\ IF theName = NoText
       THEN Reply("categories/create.json", NoCookie, "400", <<"Name is required">>)
       ELSE IF \E c \in blog_categories : c.slug = theSlug
       THEN Reply("categories/create.json", NoCookie, "400", <<ErrCategorySlug>>)
       ELSE /\ cat_seq + Cardinality(PendingCategories \cup {theSlug})
                   <= Len(CategorySeed) + MaxCategories
            /\ Suspend([Request("categories/create.json", "insert", NoCookie, NoCategory)
                           EXCEPT !.name = theName, !.slug = theSlug,
                                  !.parent_id = parent_id])

\* categories/create.json: INSERT INTO blog_categories (slug is UNIQUE, the
\* parent must be a category, which the new row itself may be); the catch
\* answers 'Failed to create category'
category_create_insert(i) ==
    /\ At(i, "categories/create.json", "insert")
    /\ UNCHANGED <<catFrame, blog_post_categories>>
    /\ cat_log' = NoLog
    /\ LET r == requests[i]
           id == cat_seq + 1
       IN  IF \/ \E c \in blog_categories : c.slug = r.slug
              \/ r.parent_id # NoCategory /\ r.parent_id \notin CategoryIds \cup {id}
           THEN /\ UNCHANGED <<blog_categories, cat_seq>>
                /\ Finish(i, "500", <<"Failed to create category">>)
           ELSE /\ cat_seq' = id
                /\ blog_categories' = blog_categories \cup
                       {[id |-> id, name |-> r.name, slug |-> r.slug,
                         parent_id |-> r.parent_id]}
                /\ requests' = RemoveAt(Raced(r.parent_id), i)
                /\ last' = Respond(r.op, "200", <<>>, r.cookie, NoUser)

\* POST of the category update form: the form is read and checked, the slug
\* is made of the name when the form gives none, SELECT id FROM
\* blog_categories WHERE slug = ? AND id != ? runs, and the parent is
\* compared with the id
category_update(id, name, slug, parent_id) ==
    LET theName == trim(name)
        theSlug == IF trim(slug) = NoText THEN categorySlug(theName) ELSE trim(slug)
    IN
    /\ UNCHANGED <<catFrame, blog_categories, cat_seq, blog_post_categories>>
    /\ cat_log' = NoLog
    /\ IF id = NoCategory \/ theName = NoText
       THEN Reply("categories/update.json", NoCookie, "400", <<"ID and Name are required">>)
       ELSE IF \E c \in blog_categories : c.slug = theSlug /\ c.id # id
       THEN Reply("categories/update.json", NoCookie, "400", <<ErrCategorySlug>>)
       ELSE IF parent_id # NoCategory /\ parent_id = id
       THEN Reply("categories/update.json", NoCookie, "400",
                  <<"Category cannot be its own parent">>)
       ELSE Suspend([Request("categories/update.json", "update", NoCookie, id)
                        EXCEPT !.name = theName, !.slug = theSlug,
                               !.parent_id = parent_id])

\* category update: UPDATE blog_categories SET name = ?, slug = ?, ...,
\* parent_id = ? WHERE id = ?, which changes no row when the category is
\* gone; the catch answers 'Failed to update category'
category_update_category(i) ==
    /\ At(i, "categories/update.json", "update")
    /\ UNCHANGED <<catFrame, blog_post_categories, cat_seq>>
    /\ cat_log' = NoLog
    /\ LET r == requests[i] IN
       IF r.id \notin CategoryIds
       THEN /\ UNCHANGED blog_categories
            /\ Finish(i, "200", <<>>)
       ELSE IF \/ \E c \in blog_categories : c.slug = r.slug /\ c.id # r.id
               \/ r.parent_id # NoCategory /\ r.parent_id \notin CategoryIds
       THEN /\ UNCHANGED blog_categories
            /\ Finish(i, "500", <<"Failed to update category">>)
       ELSE /\ blog_categories' = (blog_categories \ {Category(r.id)}) \cup
                   {[id |-> r.id, name |-> r.name, slug |-> r.slug,
                     parent_id |-> r.parent_id]}
            /\ requests' = RemoveAt(Raced(r.parent_id), i)
            /\ last' = Respond(r.op, "200", <<>>, r.cookie, NoUser)

\* DELETE categories/delete.json: the body is read; without an id, or with
\* the id 0, the answer is 400
category_delete(id) ==
    /\ UNCHANGED <<catFrame, blog_categories, cat_seq, blog_post_categories>>
    /\ cat_log' = NoLog
    /\ IF id \in {NoCategory, 0}
       THEN Reply("categories/delete.json", NoCookie, "400", <<"ID is required">>)
       ELSE Suspend(Request("categories/delete.json", "associations", NoCookie, id))

\* categories/delete.json, with the posts of the category deleted too
category_delete_associations_deletesPosts(i) ==
    /\ At(i, "categories/delete.json", "associations")
    /\ UNCHANGED <<authVars, call, blogVars, cmVars, nonceVars, rateVars, now, ticks,
                   issued, admin_sessions, bucket, post_seq, tagVars, blog_categories,
                   cat_seq>>
    /\ cat_log' = NoLog
    /\ LET gone == {a[1] : a \in {b \in blog_post_categories : b[2] = requests[i].id}} IN
       /\ blog_posts' = {p \in blog_posts : p.id \notin gone}
       /\ blog_post_categories' = {a \in blog_post_categories : a[1] \notin gone}
       /\ blog_post_tags' = {a \in blog_post_tags : a[1] \notin gone}
    /\ Await(i, [requests[i] EXCEPT !.pc = "children"])

\* categories/delete.json: DELETE FROM blog_post_categories WHERE
\* category_id = ?
category_delete_associations(i) ==
    /\ At(i, "categories/delete.json", "associations")
    /\ UNCHANGED <<catFrame, blog_categories, cat_seq>>
    /\ cat_log' = NoLog
    /\ blog_post_categories' = {a \in blog_post_categories : a[2] # requests[i].id}
    /\ Await(i, [requests[i] EXCEPT !.pc = "children"])

\* categories/delete.json: UPDATE blog_categories SET parent_id = NULL WHERE
\* parent_id = ?
category_delete_children(i) ==
    /\ At(i, "categories/delete.json", "children")
    /\ UNCHANGED <<catFrame, blog_post_categories, cat_seq>>
    /\ cat_log' = NoLog
    /\ blog_categories' = {IF c.parent_id = requests[i].id
                           THEN [c EXCEPT !.parent_id = NoCategory] ELSE c :
                           c \in blog_categories}
    /\ Await(i, [requests[i] EXCEPT !.pc = "category"])

\* categories/delete.json: DELETE FROM blog_categories WHERE id = ?, which a
\* row of another category that names it as parent makes fail (the catch
\* answers 'Failed to delete category'), and which takes the association
\* rows of the category with it (ON DELETE CASCADE)
category_delete_category(i) ==
    /\ At(i, "categories/delete.json", "category")
    /\ UNCHANGED <<catFrame, cat_seq>>
    /\ LET r == requests[i] IN
       /\ cat_log' = [id |-> r.id, raced |-> r.raced]
       /\ IF \E c \in blog_categories : c.parent_id = r.id /\ c.id # r.id
          THEN /\ UNCHANGED <<blog_categories, blog_post_categories>>
               /\ Finish(i, "500", <<"Failed to delete category">>)
          ELSE /\ blog_categories' = {c \in blog_categories : c.id # r.id}
               /\ blog_post_categories' = {a \in blog_post_categories : a[2] # r.id}
               /\ Finish(i, "200", <<>>)

CategoryName == <<"A", " ", "-", " ", "b", "!">>
\* the id of the first category the handlers create
NewCategory == Len(CategorySeed) + 1
\* the categories the requests name as parent, update or delete: none, 0,
\* the first of the default categories, the first the handlers create
ParentIds == {NoCategory, 0, 1, NewCategory}

CategoryForm(name, slug, parent_id) == [name |-> name, slug |-> slug, parent_id |-> parent_id]
\* the forms: without a name, with a blank name, and with a name between
\* blanks, without a slug or with the slug of that name between blanks
CategoryForms ==
    {CategoryForm(NoText, NoText, NoCategory), CategoryForm(<<" ">>, NoText, NoCategory)}
    \cup {CategoryForm(<<" ">> \o CategoryName \o <<" ">>,
                       IF p \in {0, NewCategory} THEN NoText ELSE <<" ", "a", "-", "b", " ">>,
                       p) : p \in ParentIds}

\* the steps of the suspended handlers of the category routes
CategorySteps ==
    \E i \in 1..MaxRequests :
        \/ category_create_insert(i)
        \/ category_update_category(i)
        \/ category_delete_associations(i)
        \/ category_delete_children(i)
        \/ category_delete_category(i)
        \/ blog_create_category(i)

\* the category routes, and posts created in a category.  A request arrives
\* at any time, while fewer than MaxRequests handlers are suspended
NextCategories ==
    \/ \E f \in CategoryForms : category_create(f.name, f.slug, f.parent_id)
    \/ \E id \in ParentIds, f \in CategoryForms : category_update(id, f.name, f.slug, f.parent_id)
    \/ \E id \in ParentIds : category_delete(id)
    \/ \E c \in {1, NewCategory} : blog_create(NoCookie, TRUE, CategoryName, <<c>>, <<>>)
    \/ CategorySteps

SpecCategories == Init /\ [][NextCategories]_vars

(***************************************************************************)
(* Category deletes, with the requests that refer to a category: creates   *)
(* that name a parent, updates that give a category another one as parent, *)
(* and posts created in category 1.  The categories are the first of the   *)
(* default ones and the first the handlers create.  A request arrives at   *)
(* any time, while fewer than MaxRequests handlers are suspended.          *)
(***************************************************************************)
Referred == {1, NewCategory}
\* the name the update form of a category gives: the one it was created with
NameOf(id) == IF id \in DOMAIN CategorySeed THEN CategorySeed[id].name ELSE CategoryName

NextCategoryDelete ==
    \/ \E id \in Referred : category_delete(id)
    \/ \E p \in Referred : category_create(CategoryName, NoText, p)
    \/ \E id \in Referred : \E p \in Referred \ {id} :
           category_update(id, NameOf(id), NoText, p)
    \/ blog_create(NoCookie, TRUE, CategoryName, <<1>>, <<>>)
    \/ CategorySteps

SpecCategoryDelete == Init /\ [][NextCategoryDelete]_vars

(***************************************************************************)
AuthorActions == {"create", "read", "update"}
EditorActions == AuthorActions \cup {"publish", "delete"}
AdminActions == EditorActions \cup {"manage_users"}

\* C17: hasPermission(user, action) is true exactly for an author with one
\* of create, read, update, an editor with one of those or publish, delete,
\* an admin with one of those or manage_users; in every other case, a role
\* outside the table included, it returns false and does not throw.
C17_PermissionTable ==
    call.op = "hasPermission" =>
        call.result =
            IF \/ call.role = "author" /\ call.action \in AuthorActions
               \/ call.role = "editor" /\ call.action \in EditorActions
               \/ call.role = "admin" /\ call.action \in AdminActions
            THEN "true"
            ELSE "false"

\* C19: for two stored hashes of equal length, verifyPassword makes the
\* same number of byte comparisons against a derived hash, wherever (and
\* whether) the first mismatching byte occurs.
C19_ConstantTimeCompare ==
    call.op = "verifyPassword" /\ Len(call.storedHash[1]) = Len(call.storedHash[2]) =>
        call.comparisons[1] = call.comparisons[2]

(***************************************************************************)
(* Properties of the deployed path (SpecHttp)                              *)
(***************************************************************************)
ProtectedOps ==
    {"blog/create.json", "blog/update.json", "blog/delete.json", "blog/duplicate.json",
     "tags/create.json", "tags/update.json", "tags/delete.json",
     "upload-image.json", "delete-image.json"}

\* C4: every protected admin operation validates the session before acting:
\* no step of a request that carries no session cookie creates, modifies or
\* deletes a post, a tag, an association row or an image.
C4_ProtectedNeedSession ==
    [][last'.op \in ProtectedOps /\ last'.tok = NoCookie =>
        UNCHANGED <<blog_posts, post_seq, blog_post_categories, blog_post_tags,
                    tagVars, bucket>>]_vars

\* C8: a token is accepted immediately after login.json issued it, and is
\* rejected at every time after its stored expires_at has passed.
C8_DeployedExpiry ==
    /\ (last.op = "login.json" /\ last.res = "200" => isAuthenticated(last.tok))
    /\ \A row \in admin_sessions :
          now > DateParse(row.expires_at) => ~isAuthenticated(row.token)

(***************************************************************************)
(* Properties of the session lifecycle (SpecSession)                       *)
(***************************************************************************)
ExpiresAt(t) == DateParse(sessions[t].expires_at)

\* C1: validateSession(token) returns the owning user if and only if a
\* session with that token exists and now < expires_at; otherwise (token
\* absent, or now >= expires_at, now = expires_at included) it returns null.
C1_ValidateIffUnexpired ==
    [][last'.op = "validateSession" =>
        IF last'.tok \in DOMAIN sessions /\ now < ExpiresAt(last'.tok)
        THEN last'.uid = sessions[last'.tok].user_id
        ELSE last'.uid = NoUser]_vars

\* C3: refreshSession(token) sets expires_at to now + TTL and succeeds only
\* if the session exists and now < expires_at; for an absent or expired
\* token it fails and leaves the session store unchanged.
C3_RefreshOnlyUnexpired ==
    [][last'.op = "refreshSession" =>
        IF last'.tok \in DOMAIN sessions /\ now < ExpiresAt(last'.tok)
        THEN /\ last'.res = "session"
             /\ sessions' = [sessions EXCEPT ![last'.tok].expires_at = toISOString(now + sessionTTL)]
        ELSE /\ last'.res = "null"
             /\ sessions' = sessions]_vars

\* C6: after logout(token) the token never validates again, whatever calls
\* intervene: logout leaves the token absent, an absent token that was
\* generated (or 'invalid') stays absent in every step, and validateSession
\* of an absent token returns null; logout of an absent token returns
\* (false) without throwing and changes nothing.
C6_LogoutIsFinal ==
    [][/\ (last'.op = "logout" =>
              /\ last'.tok \notin DOMAIN sessions'
              /\ last'.res \in {"true", "false"})
       /\ \A t \in Presentable : t \notin DOMAIN sessions => t \notin DOMAIN sessions'
       /\ (last'.op = "validateSession" /\ last'.tok \notin DOMAIN sessions =>
              last'.uid = NoUser)
       /\ (last'.op = "logout" /\ last'.tok \notin DOMAIN sessions =>
              /\ last'.res = "false"
              /\ UNCHANGED <<users, sessions, nextUserId, tasks, issued>>)]_vars

\* a generated token is not validated while the clock has not moved (so it
\* cannot have expired: it was logged out) and another session is active
C6_Witness ==
    /\ last.op = "validateSession"
    /\ last.tok \in issued
    /\ last.uid = NoUser
    /\ ticks = 0
    /\ sessions # <<>>

\* C7: login with an unknown email and login with a known email and a wrong
\* password have the identical outcome (the error 'Invalid credentials'),
\* create no session and change no user record.
LoginOutcome(l) == <<l.res, l.err, l.tok, l.uid>>
RejectedLogin == <<"throw", <<ErrCredentials>>, Invalid, NoUser>>

C7_LoginFailuresAlike ==
    [][/\ (last'.op = "login" /\ last'.email # NoText /\ FindByEmail(last'.email) = NoUser =>
              /\ LoginOutcome(last') = RejectedLogin
              /\ UNCHANGED <<users, sessions, issued, tasks>>)
       /\ (last'.op = "login" /\ last'.email = NoText /\ ~Head(tasks).valid =>
              /\ LoginOutcome(last') = RejectedLogin
              /\ UNCHANGED <<users, sessions, issued>>)
       /\ (last'.op = "login" /\ last'.res = "await" =>
              (tasks'[Len(tasks')].valid <=>
                  users[last'.uid].password_hash = AuthService_hashPassword(last'.pw)))]_vars

\* a login of a registered user with a wrong password has just been rejected
C7_Witness ==
    /\ last.op = "login"
    /\ last.email = NoText
    /\ last.res = "throw"

\* C9: a successful login creates exactly one new session, owned by the
\* authenticated user and expiring at now + 7 days, sets that user's
\* last_login, and leaves every other user and session unchanged.
C9_LoginFrame ==
    [][last'.op = "login" /\ last'.res = "return" =>
        /\ Head(tasks).valid /\ Head(tasks).id = last'.uid
        /\ last'.tok \notin DOMAIN sessions
        /\ DOMAIN sessions' = DOMAIN sessions \cup {last'.tok}
        /\ sessions'[last'.tok].user_id = last'.uid
        /\ DateParse(sessions'[last'.tok].expires_at) = now + 7 * DayTicks
        /\ \A t \in DOMAIN sessions : sessions'[t] = sessions[t]
        /\ DOMAIN users' = DOMAIN users
        /\ users'[last'.uid] = [users[last'.uid] EXCEPT !.last_login = toISOString(now)]
        /\ users'[last'.uid].last_login # NoText
        /\ \A u \in UserIds \ {last'.uid} : users'[u] = users[u]]_vars

\* a login has just succeeded while another session exists and time has passed
C9_Witness ==
    /\ last.op = "login"
    /\ last.res = "return"
    /\ Cardinality(DOMAIN sessions) = 2
    /\ now > 0
    /\ users[last.uid].last_login = toISOString(now)

\* C10: validateSession of an expired session (now >= expires_at) deletes
\* the entry and returns null; of an unexpired one it deletes nothing.
C10_ReapOnRead ==
    [][last'.op = "validateSession" /\ last'.tok \in DOMAIN sessions =>
        IF now >= ExpiresAt(last'.tok)
        THEN /\ last'.uid = NoUser
             /\ last'.tok \notin DOMAIN sessions'
             /\ \A t \in DOMAIN sessions \ {last'.tok} :
                    t \in DOMAIN sessions' /\ sessions'[t] = sessions[t]
        ELSE sessions' = sessions]_vars

\* C11: a session token is absent or active (an entry of the session map).
\* It becomes active only by the return of a login that generated it, its
\* entry changes only by refreshSession of that token (same owner), and it
\* becomes absent only by logout of that token or by a validateSession of
\* that token that finds it expired.  When validateSession returns null the
\* token is absent afterwards, and a token that was generated before stays
\* absent under refreshSession and validateSession, which return null.
C11_SessionStates ==
    [][/\ \A t \in Presentable \cup DOMAIN sessions' :
            /\ (t \notin DOMAIN sessions /\ t \in DOMAIN sessions' =>
                    /\ last'.op = "login" /\ last'.res = "return" /\ last'.tok = t
                    /\ t \notin Presentable)
            /\ (t \in DOMAIN sessions /\ t \notin DOMAIN sessions' =>
                    /\ last'.tok = t
                    /\ \/ last'.op = "logout"
                       \/ /\ last'.op = "validateSession"
                          /\ last'.uid = NoUser
                          /\ SessionExpired(sessions[t], now))
            /\ (t \in DOMAIN sessions /\ t \in DOMAIN sessions' /\ sessions'[t] # sessions[t] =>
                    /\ last'.op = "refreshSession" /\ last'.tok = t
                    /\ sessions'[t].user_id = sessions[t].user_id)
       /\ (last'.op = "validateSession" /\ last'.uid = NoUser =>
               last'.tok \notin DOMAIN sessions')
       /\ (last'.op = "refreshSession" /\ last'.tok \notin DOMAIN sessions =>
               /\ last'.res = "null"
               /\ last'.tok \notin DOMAIN sessions')]_vars

\* validateSession has just returned null for a generated token whose
\* lifetime has passed, while another session is still active
C11_Witness ==
    /\ last.op = "validateSession"
    /\ last.tok \in issued
    /\ last.uid = NoUser
    /\ now > sessionTTL
    /\ sessions # <<>>

\* C16: login looks the user up by the normalized email: a login whose
\* email is, up to letter case, that of a registered user and whose
\* password is that user's is accepted for that user; and every stored
\* email is in lowercase form.
C16_LoginNormalizesEmail ==
    [][/\ \A u \in DOMAIN users' : users'[u].email = toLowerCase(users'[u].email)
       /\ (last'.op = "login" /\ last'.email # NoText =>
              \A u \in UserIds :
                  /\ toLowerCase(users[u].email) = toLowerCase(last'.email)
                  /\ AuthService_verifyPassword(last'.pw, users[u].password_hash)
                  => /\ last'.res = "await"
                     /\ last'.uid = u
                     /\ tasks'[Len(tasks')].valid)]_vars

(***************************************************************************)
(* Properties of registration (SpecRegister)                               *)
(***************************************************************************)
\* C2: under concurrent createUser calls with the identical email exactly
\* one succeeds and the other fails with 'Email already exists': the user
\* store never holds two users with the same email.
C2_UniqueEmails ==
    \A u, v \in UserIds : u # v => users[u].email # users[v].email

\* the email is that of an existing user up to letter case, and not identical
CaseVariantOfExisting(email) ==
    \E u \in UserIds :
        /\ users[u].email # email
        /\ toLowerCase(users[u].email) = toLowerCase(email)

\* C5: createUser (with a well-formed email and a strong password) whose
\* email differs only in letter case from an existing user's email fails
\* with 'Email already exists' and creates no user.
C5_CaseInsensitiveConflict ==
    [][/\ last'.op = "createUser"
       /\ last'.res # "return"
       /\ validateEmail(last'.email)
       /\ validatePassword(last'.pw).valid
       /\ CaseVariantOfExisting(last'.email)
       => /\ last'.res = "throw"
          /\ last'.err = <<ErrEmailExists>>
          /\ UNCHANGED <<users, nextUserId, tasks>>]_vars

\* C12: a createUser call with an invalid email, a weak password or the
\* email of an existing user throws, and a createUser call that throws
\* leaves the user store (the users map and the id counter) and the
\* suspended calls exactly as they were: no partial record exists.
C12_FailedCreateKeepsStore ==
    [][last'.op = "createUser" /\ last'.res # "return" =>
        /\ (\/ ~validateEmail(last'.email)
            \/ ~validatePassword(last'.pw).valid
            \/ HasEmail(last'.email)) => last'.res = "throw"
        /\ last'.res = "throw" =>
              /\ last'.err # <<>>
              /\ UNCHANGED <<users, nextUserId, tasks>>]_vars

\* a createUser has just been rejected as a duplicate of a stored user
C12_Witness ==
    /\ last.op = "createUser"
    /\ last.res = "throw"
    /\ last.err = <<ErrEmailExists>>
    /\ HasEmail(last.email)

(***************************************************************************)
(* Properties of password changes (SpecPassword)                           *)
(***************************************************************************)
\* C13: changePassword throws 'User not found' for an unknown id whatever
\* the passwords; for a known id it throws 'Current password is incorrect'
\* when the old password does not verify against the stored hash, whatever
\* the new password; only then does a weak new password throw the list of
\* its violations; a changePassword that throws leaves every user record,
\* so the stored hash, unchanged.
C13_ChangePasswordErrors ==
    [][last'.op = "changePassword" =>
        /\ (last'.pw # NoText =>
               IF last'.uid \notin UserIds
               THEN /\ last'.res = "throw"
                    /\ last'.err = <<ErrUserNotFound>>
               ELSE /\ last'.res = "await"
                    /\ tasks'[Len(tasks')].valid <=>
                          users[last'.uid].password_hash = AuthService_hashPassword(last'.pw))
        /\ (last'.pw = NoText /\ Head(tasks).pc = "changePassword" =>
               IF ~Head(tasks).valid
               THEN /\ last'.res = "throw"
                    /\ last'.err = <<ErrOldPassword>>
               ELSE IF ~validatePassword(Head(tasks).pw).valid
               THEN /\ last'.res = "throw"
                    /\ last'.err = validatePasswordErrors(Head(tasks).pw)
                    /\ last'.err # <<>>
               ELSE last'.res = "await")
        /\ (last'.res # "return" => users' = users)]_vars

\* a changePassword of a registered user has just been rejected for its old
\* password
C13_Witness ==
    /\ last.op = "changePassword"
    /\ last.res = "throw"
    /\ last.err = <<ErrOldPassword>>
    /\ last.uid \in UserIds

\* C14: a login is accepted if and only if the password it was called with
\* is the one most recently set for that user, by createUser or by a
\* changePassword that returned: the stored hash verifies exactly that
\* password, the call's verdict is taken against it, and the call returns a
\* session exactly when the verdict was positive.
C14_LoginIffCurrentPassword ==
    [][/\ \A u \in DOMAIN users', p \in Passwords :
            AuthService_verifyPassword(p, users'[u].password_hash) <=> p = passwordOf'[u]
       /\ (last'.op = "login" /\ last'.res = "await" =>
              (tasks'[Len(tasks')].valid <=> last'.pw = passwordOf[last'.uid]))
       /\ (last'.op = "login" /\ last'.email = NoText =>
              (last'.res = "return" <=> Head(tasks).valid))
       /\ (last'.op = "changePassword" /\ last'.res = "return" =>
              /\ passwordOf'[last'.uid] = Head(tasks).pw
              /\ passwordOf[last'.uid] # Head(tasks).pw =>
                    ~AuthService_verifyPassword(passwordOf[last'.uid], users'[last'.uid].password_hash))]_vars

\* after a password change a login with the old password has just been
\* given a negative verdict
C14_Witness ==
    /\ last.op = "login"
    /\ last.res = "await"
    /\ last.pw = PwStrong
    /\ passwordOf[last.uid] = PwOther
    /\ ~tasks[Len(tasks)].valid

\* C15: no step of changePassword changes the session store: every session
\* is still there with the same owner and expiry, so one that validated
\* before validates after.
C15_ChangePasswordKeepsSessions ==
    [][last'.op = "changePassword" =>
        /\ sessions' = sessions
        /\ \A t \in DOMAIN sessions :
              ~SessionExpired(sessions[t], now) =>
                  /\ t \in DOMAIN sessions'
                  /\ ~SessionExpired(sessions'[t], now')
                  /\ sessions'[t].expires_at = sessions[t].expires_at
                  /\ sessions'[t].user_id = sessions[t].user_id]_vars

\* a session of the first user has just validated although the password
\* it was opened with has been replaced
C15_Witness ==
    /\ last.op = "validateSession"
    /\ last.uid = 1
    /\ passwordOf[1] = PwOther
    /\ last.tok \in DOMAIN sessions

(***************************************************************************)
(* Properties of password validation (SpecValidate)                        *)
(***************************************************************************)
\* the rules a password violates
Violations(password) ==
    {e \in {ErrLength} : Len(password) < 8}
    \cup {e \in {ErrUpper} : \A i \in DOMAIN password : password[i] \notin UpperChars}
    \cup {e \in {ErrLower} : \A i \in DOMAIN password : password[i] \notin LowerChars}
    \cup {e \in {ErrNumber} : \A i \in DOMAIN password : password[i] \notin DigitChars}

\* C18: validatePassword reports every rule the password violates (length
\* below 8, no uppercase letter, no lowercase letter, no digit), each once,
\* and is valid exactly when none is violated; createUser with a
\* well-formed email reports the same list, so that 'short1' is rejected
\* with both the length and the uppercase violation.
C18_AllViolationsReported ==
    /\ call.op = "validatePassword" =>
          /\ Range(call.result.errors) = Violations(call.password)
          /\ Len(call.result.errors) = Cardinality(Violations(call.password))
          /\ call.result.valid <=> Violations(call.password) = {}
    /\ last.op = "createUser" /\ last.pw # NoText /\ Violations(last.pw) # {} =>
          /\ last.res = "throw"
          /\ Range(last.err) = Violations(last.pw)
    /\ last.op = "createUser" /\ last.pw = PwWeak =>
          {ErrLength, ErrUpper} \subseteq Range(last.err)

\* createUser has just rejected 'short1', and validatePassword was applied
\* to a password that violates all four rules
C18_Witness ==
    /\ last.op = "createUser"
    /\ last.pw = PwWeak
    /\ last.res = "throw"
    /\ call.op = "validatePassword"
    /\ Len(call.result.errors) = 4

(***************************************************************************)
(* Properties of the blog post handlers (SpecBlog)                         *)
(***************************************************************************)
\* C20: a create or update request that is answered with an error (any
\* status but 200) has changed no row of blog_posts and written no row of
\* blog_post_categories or blog_post_tags: neither the step that answers
\* nor an earlier statement of the request did.
C20_AtomicPostRequests ==
    [][last'.op \in {"blog/create.json", "blog/update.json"}
          /\ last'.res \notin {"200", "await"} =>
        /\ UNCHANGED <<blog_posts, blog_post_categories, blog_post_tags>>
        /\ \A i \in DOMAIN requests :
              requests' = RemoveAt(requests, i) => ~requests[i].wrote]_vars

(***************************************************************************)
(* Properties of concurrent calls                                          *)
(***************************************************************************)
\* C25: a login returns a session only if the password it was called with
\* verifies against the hash stored when the session is created, also when
\* a changePassword of the same user runs between the login's call and its
\* return.
C25_LoginAgainstCurrentHash ==
    [][last'.op = "login" /\ last'.res = "return" =>
        AuthService_verifyPassword(Head(tasks).pw, users[last'.uid].password_hash)]_vars

\* the ids of the createUser calls that are suspended
PendingIds == {tasks[i].id : i \in {j \in DOMAIN tasks : tasks[j].pc = "createUser"}}

\* C26: createUser takes its id from the counter before it suspends, an id
\* greater than every id stored or taken so far; when it returns it stores
\* its user under that id, which no stored user has, and leaves every
\* stored user as it was.
C26_UniqueIncreasingIds ==
    [][/\ (last'.op = "createUser" /\ last'.res = "await" =>
              /\ last'.uid = nextUserId
              /\ nextUserId' > nextUserId
              /\ \A u \in UserIds \cup PendingIds : u < last'.uid)
       /\ (last'.op = "createUser" /\ last'.res = "return" =>
              /\ last'.uid = Head(tasks).id
              /\ last'.uid \notin UserIds
              /\ DOMAIN users' = UserIds \cup {last'.uid}
              /\ \A u \in UserIds : users'[u] = users[u] /\ u < last'.uid)]_vars

\* the second of two createUser calls that were suspended together has
\* just stored its user
C26_Witness ==
    /\ last.op = "createUser"
    /\ last.res = "return"
    /\ last.uid = 2
    /\ nextUserId = 3
    /\ users[1].last_login = NoText
    /\ users[1].email = users[2].email

(***************************************************************************)
(* BlogService: slugs                                                      *)
(***************************************************************************)
\* C21: after any sequence of BlogService create, update, duplicate and
\* delete calls, no two stored posts have the same slug.
C21_UniqueSlugs ==
    \A i, j \in PostIds : i # j => posts[i].slug # posts[j].slug

\* the k-th slug duplicate tries: '<slug>-copy', then '<slug>-copy-<k>'
CopyCandidate(slug, k) ==
    IF k = 0 THEN slug \o CopySuffix
    ELSE slug \o CopySuffix \o <<"-">> \o Decimal(k)

\* C22: duplicate(id) of an existing post succeeds, creating a draft whose
\* slug is the first unused one of '<slug>-copy', '<slug>-copy-1', ..., and
\* leaves every stored post, the original among them, unchanged.
C22_DuplicateFirstUnusedSlug ==
    [][call'.op = "duplicate" /\ call'.arg \in PostIds =>
          /\ call'.res = "return"
          /\ call'.post = nextId
          /\ DOMAIN posts' = PostIds \cup {nextId}
          /\ \A i \in PostIds : posts'[i] = posts[i]
          /\ posts'[nextId].status = <<"d","r","a","f","t">>
          /\ \E k \in 0..Cardinality(PostIds) :
                /\ posts'[nextId].slug = CopyCandidate(posts[call'.arg].slug, k)
                /\ ~getBySlugSync(CopyCandidate(posts[call'.arg].slug, k))
                /\ \A m \in 0..(k - 1) :
                       getBySlugSync(CopyCandidate(posts[call'.arg].slug, m))]_vars

\* a copy was made when '<slug>-copy' was already taken
C22_Witness ==
    /\ call.op = "duplicate" /\ call.res = "return"
    /\ posts[call.post].slug = <<"a", "-", "c", "o", "p", "y", "-", "1">>
    /\ \E i \in PostIds : posts[i].slug = <<"a", "-", "c", "o", "p", "y">>

(***************************************************************************)
(* ComponentManager: the history                                           *)
(***************************************************************************)
\* C23: the history never holds more than 50 entries; an update recorded
\* when it holds 50 drops the oldest entry and keeps the others in order,
\* the new entry last.
C23_HistoryBounded ==
    /\ [](Len(history) <= maxHistory)
    /\ [][call'.op = "update" /\ call'.result /\ Len(history) = maxHistory =>
            /\ Len(history') = maxHistory
            /\ \A i \in 1..(maxHistory - 1) : history'[i] = history[i + 1]
            /\ history'[maxHistory] = [componentId |-> call'.id,
                                        type |-> components[call'.id].type,
                                        changes |-> call'.changes]]_vars

\* a 51st update pushed the marked entry one place towards the front
C23_Witness ==
    /\ call.op = "update" /\ call.shifted
    /\ Len(history) = maxHistory
    /\ Marked(maxHistory - 1)

\* C24: undo removes and returns the last entry of the history, and returns
\* null when the history is empty; update of an unregistered id returns
\* false and leaves the history as it was.
C24_UndoLastInFirstOut ==
    [][/\ call'.op = "undo" /\ history # <<>> =>
            /\ call'.result = history[Len(history)]
            /\ history' = SubSeq(history, 1, Len(history) - 1)
       /\ call'.op = "undo" /\ history = <<>> =>
            call'.result = NoUpdate /\ history' = <<>>
       /\ call'.op = "update" /\ call'.id \notin DOMAIN components =>
            ~call'.result /\ history' = history]_vars

\* undo returned the marked update, the last of several
C24_Witness ==
    /\ call.op = "undo" /\ call.result.changes = MarkedChanges
    /\ Len(history) >= 2
    /\ \A i \in DOMAIN history : ~Marked(i)

(***************************************************************************)
(* Wallet authentication: nonces                                           *)
(***************************************************************************)
\* validateNonce has just returned true, by itself or inside verifySignature
NonceAccepted(c) ==
    \/ c.op = "validateNonce" /\ c.result
    \/ c.op = "verifySignature" /\ c.validNonce

\* C27: validateNonce returns true only for a nonce that was generated for
\* that address, is the most recent one generated for it, has not expired,
\* and has never been accepted before: each generated nonce is accepted at
\* most once.  (A step that leaves the clock alone is a call.)
C27_NonceOneTimeUse ==
    [][now' = now /\ NonceAccepted(call') =>
          /\ call'.nonce \in DOMAIN nonceLog
          /\ nonceLog[call'.nonce].address = toLowerCase(call'.address)
          /\ \A m \in DOMAIN nonceLog :
                 nonceLog[m].address = toLowerCase(call'.address) => m <= call'.nonce
          /\ now <= nonceLog[call'.nonce].expiry
          /\ ~nonceLog[call'.nonce].accepted
          /\ toLowerCase(call'.address) \notin DOMAIN nonceStore']_vars

\* the second nonce of an address, asked for under another spelling of the
\* address, was accepted at the last moment of its life
C27_Witness ==
    /\ call.op = "validateNonce" /\ call.result
    /\ call.nonce = 2
    /\ call.address # nonceLog[2].address
    /\ nonceLog[1].address = nonceLog[2].address
    /\ now = nonceLog[2].expiry

(***************************************************************************)
(* Wallet authentication: the rate limit                                   *)
(***************************************************************************)
\* C28: within the window of an identifier checkRateLimit returns true
\* until it has done so MAX_ATTEMPTS times and false from then on; the
\* first call, and a call made after resetTime, returns true and starts a
\* window of RATE_LIMIT_WINDOW with the attempt count at 1.  (A step that
\* leaves the clock alone is a call.)
C28_RateLimitWindow ==
    [][now' = now /\ call'.op = "checkRateLimit" =>
          LET id == call'.identifier
              open == id \in DOMAIN rateLog /\ ~(now > rateLog[id].windowEnd)
          IN  /\ rateLog'[id].allowed <= MAX_ATTEMPTS
              /\ open => /\ call'.result = (rateLog[id].allowed < MAX_ATTEMPTS)
                         /\ rateLimitStore'[id].resetTime = rateLog[id].windowEnd
                         /\ rateLimitStore'[id].attempts = rateLog'[id].allowed
              /\ ~open => /\ call'.result
                          /\ rateLimitStore'[id] =
                                 [attempts |-> 1, resetTime |-> now + RATE_LIMIT_WINDOW]
              /\ \A other \in DOMAIN rateLimitStore \ {id} :
                     rateLimitStore'[other] = rateLimitStore[other]]_vars

\* a window that had been used up was replaced by a new one
C28_Witness ==
    /\ call.op = "checkRateLimit" /\ call.result
    /\ call.limit.attempts = MAX_ATTEMPTS
    /\ rateLimitStore[call.identifier].attempts = 1
    /\ now = call.limit.resetTime + 1

(***************************************************************************)
(* Categories                                                              *)
(***************************************************************************)
\* C29: no category has parent_id equal to its own id.
C29_NoSelfParent ==
    \A c \in blog_categories : c.parent_id # c.id

\* C30: when a category delete request answers 200, no category names the
\* deleted id as its parent and no row of blog_post_categories names it;
\* and no statement of a category delete request, the one that completes it
\* or an earlier one, deletes a post.  This holds with category creates and
\* updates that name the deleted category as parent, and post creates in
\* it, running between the statements of the delete.
C30_DeleteLeavesNoReference ==
    [][last'.op = "categories/delete.json" =>
        /\ blog_posts' = blog_posts
        /\ last'.res = "200" =>
              /\ \A c \in blog_categories' : c.parent_id # cat_log'.id
              /\ \A a \in blog_post_categories' : a[2] # cat_log'.id]_vars

\* the delete of category 1 has answered 200 after a category naming it as
\* parent was written between its statements: that category is now
\* top-level; the post created in category 1 (its request has been
\* answered) remains, and its association row is gone
C30_Witness ==
    /\ last.op = "categories/delete.json" /\ last.res = "200"
    /\ cat_log = [id |-> 1, raced |-> TRUE]
    /\ 1 \notin CategoryIds
    /\ \E c \in blog_categories : c.id = NewCategory /\ c.parent_id = NoCategory
    /\ requests = <<>>
    /\ blog_posts # {}
    /\ blog_post_categories = {}
====
